---- MODULE Spec2Model ----
(***************************************************************************)
(* Model of the HQAttendance Apps Script project: the roster              *)
(* reconciliation of NewNamesDir.js (syncDirectoryNamesToAllTabs and its   *)
(* helpers) and the identity registry / attendance aggregation of          *)
(* Attendance Stats.js (matchOrAssignBelCodes, calculateAttendanceStats).  *)
(*                                                                         *)
(* A cell text is a sequence of one-character strings, so that trimming,   *)
(* lower-casing and stripping are computed character by character.  The    *)
(* empty cell is the empty sequence.  An ID cell is an integer: a          *)
(* non-negative number is a numeric cell, BlankId the empty cell and       *)
(* TextId a cell holding non-numeric text.  Header rows are taken to be    *)
(* filled in, so a tab's rows here are its data rows and getLastRow is     *)
(* the number of header rows plus the length of the sequence.              *)
(***************************************************************************)
EXTENDS Integers, Sequences, FiniteSets, TLC

VARIABLES
  directory,    \* data rows of the external Directory tab
  config,       \* what a run finds: "ok", "noConfig", "emptyB2" or "noDirectory"
  tabs,         \* the six roster tabs: name -> [exists, rows]
  stats,        \* the Attendance Stats tab: [exists, rows]
  eaHead,       \* Event Attendance header rows 2 and 3: column -> [date, name]
  ssHead,       \* Sunday Service header row 2: column -> date
  attLog,       \* data rows of the Attendance Log tab
  today,        \* the injected "now" of a run
  prev,         \* roster tabs as they were when the last run started
  outcome,      \* how the last run of syncDirectoryNamesToAllTabs ended
  prevOutcome,  \* how the run before it ended
  runs,         \* number of runs of syncDirectoryNamesToAllTabs so far
  bel,          \* result of the last matchOrAssignBelCodes
  summary,      \* result of the last calculateAttendanceStats
  lastOp,       \* the operation that ran last
  guests,       \* data rows of the Guests tab: [ln, fn, regDate]
  passes,       \* the reconciliation passes in flight on Appsheet Event: pass -> position and locals
  pastoral,     \* columns E and F of Pastoral Check-In: data row -> [recent, previous]
  applied,      \* per Attendance Log row, how often processAttendanceLogV2 recorded it on a destination tab
  logRuns       \* runs of the two Attendance Log functions so far: [process, export]

vars == <<directory, config, tabs, stats, eaHead, ssHead, attLog, today,
          prev, outcome, prevOutcome, runs, bel, summary,
          lastOp,
          guests,
          passes,
          pastoral,
          applied,
          logRuns>>

\* no run of processAttendanceLogV2 or exportSheetsAttendanceToLogV2 yet
NoLogRuns == [process |-> 0, export |-> 0]

---------------------------------------------------------------------------
(* Cell texts                                                              *)

BlankId == 0 - 1
TextId == 0 - 2

\* String.prototype.toLowerCase on the characters the model uses
toLowerCase(c) ==
  CASE c = "A" -> "a"
    [] c = "B" -> "b"
    [] c = "C" -> "c"
    [] c = "J" -> "j"
    [] OTHER -> c

LowerStr(s) == [i \in 1..Len(s) |-> toLowerCase(s[i])]

IsSpace(c) == c = " "

RECURSIVE TrimLeft(_)
TrimLeft(s) ==
  IF s = <<>> THEN <<>>
  ELSE IF IsSpace(Head(s)) THEN TrimLeft(Tail(s)) ELSE s

RECURSIVE TrimRight(_)
TrimRight(s) ==
  IF s = <<>> THEN <<>>
  ELSE IF IsSpace(s[Len(s)]) THEN TrimRight(SubSeq(s, 1, Len(s) - 1)) ELSE s

\* String.prototype.trim
Trim(s) == TrimRight(TrimLeft(s))

\* the character class [A-Za-z\u00C0-\u024F], on the characters the model uses
IsLooseLetter(c) == c \in {"a", "b", "c", "f", "j", "l", "A", "B", "C", "J"}

\* the character class [a-z0-9,]
IsStrictChar(c) == c \in {"a", "b", "c", "f", "j", "l", "0", "1", ","}

\* JavaScript null, as a key
Null == <<>>

\* the key without the replace(/[^A-Za-z\u00C0-\u024F]/g, '') of the two parts
buildNameKeyUnstripped_(lastName, firstName) ==
  LET ln == LowerStr(Trim(lastName))
      fn == LowerStr(Trim(firstName))
  IN IF ln = <<>> /\ fn = <<>> THEN <<>>
     ELSE ln \o <<"|">> \o fn

\* buildNameKey_: the Loose-key, or Null
buildNameKey_(lastName, firstName) ==
  LET ln == LowerStr(Trim(lastName))
      fn == LowerStr(Trim(firstName))
      cleanLn == SelectSeq(ln, IsLooseLetter)
      cleanFn == SelectSeq(fn, IsLooseLetter)
  IN IF ln = <<>> /\ fn = <<>> THEN Null
     ELSE IF cleanLn = <<>> /\ cleanFn = <<>> THEN Null
     ELSE cleanLn \o <<"|">> \o cleanFn

\* normalizeName: the key of Attendance Stats.js
normalizeName(name) ==
  IF name = <<>> THEN <<>>
  ELSE Trim(SelectSeq(LowerStr(name), IsStrictChar))

\* the template literal `${last}, ${first}`
LastCommaFirst(last, first) == last \o <<",", " ">> \o first

\* the UTF-16 code unit of a character, on the characters the model uses
CodeUnit(c) ==
  CASE c = " " -> 32
    [] c = "," -> 44
    [] c = "." -> 46
    [] c = "0" -> 48
    [] c = "1" -> 49
    [] c = "A" -> 65
    [] c = "B" -> 66
    [] c = "C" -> 67
    [] c = "J" -> 74
    [] c = "a" -> 97
    [] c = "b" -> 98
    [] c = "c" -> 99
    [] c = "f" -> 102
    [] c = "j" -> 106
    [] c = "l" -> 108
    [] OTHER -> 127

\* a < b on strings: by code units, a proper prefix first
RECURSIVE StringLess(_, _)
StringLess(a, b) ==
  IF b = <<>> THEN FALSE
  ELSE IF a = <<>> THEN TRUE
  ELSE IF CodeUnit(Head(a)) # CodeUnit(Head(b)) THEN CodeUnit(Head(a)) < CodeUnit(Head(b))
  ELSE StringLess(Tail(a), Tail(b))

---------------------------------------------------------------------------
(* Rows and tabs                                                           *)

\* a data row of a roster tab: the ID cell (column A), the two name cells
\* (C, D), the set of checkbox columns that are TRUE, and the Type cell (H),
\* which only processMemberStatus writes
Row(id, ln, fn, att) == [id |-> id, ln |-> ln, fn |-> fn, att |-> att, type |-> ""]

\* new Array(numCols).fill('')
EmptyRow == Row(BlankId, <<>>, <<>>, {})

TabNames == {"Event Attendance", "Sunday Service", "Appsheet Sunserv",
             "Appsheet Event", "Appsheet Pastoral", "Pastoral Check-In"}

\* SHEETS_CONFIG: the tabs whose cfg has an idCol
HasIdCol(name) == name \in {"Appsheet Sunserv", "Appsheet Event", "Appsheet Pastoral"}

\* EXTRA_SOURCE_SHEETS, in order
EXTRA_SOURCE_SHEETS == <<"Event Attendance", "Sunday Service", "Pastoral Check-In">>

\* ATTENDANCE_TABS_CONFIG
ATTENDANCE_TABS_CONFIG == {"Event Attendance", "Sunday Service", "Pastoral Check-In"}

\* APPSHEET_TABS_CONFIG
APPSHEET_TABS_CONFIG == {"Appsheet Sunserv", "Appsheet Event", "Appsheet Pastoral"}

\* the rows up to getLastRow: trailing rows without any content are not there
RECURSIVE UpToLastRow(_)
UpToLastRow(rows) ==
  IF rows = <<>> THEN <<>>
  ELSE IF rows[Len(rows)] = EmptyRow THEN UpToLastRow(SubSeq(rows, 1, Len(rows) - 1))
  ELSE rows

\* the row has a name, as the scans test it: !ln && !fn after trim
IsBlankName(row) == Trim(row.ln) = <<>> /\ Trim(row.fn) = <<>>

RowKey(row) == IF IsBlankName(row) THEN Null ELSE buildNameKey_(Trim(row.ln), Trim(row.fn))

\* existingKeys of a tab
ExistingKeys(rows) == {RowKey(rows[i]) : i \in 1..Len(rows)} \ {Null}

Max(a, b) == IF a > b THEN a ELSE b

\* a next ID taken from the number of data rows instead of the largest ID
MaxIdRowCount(rows) == Len(rows)

\* maxId over the ID column: Number(raw) of a numeric cell, others skipped
RECURSIVE MaxId(_)
MaxId(rows) ==
  IF rows = <<>> THEN 0
  ELSE LET raw == Head(rows).id
       IN IF raw >= 0 THEN Max(raw, MaxId(Tail(rows))) ELSE MaxId(Tail(rows))

\* getNextAvailableRow_, as an index into the data rows (1 = dataStartRow)
getNextAvailableRow_(rows) ==
  IF \E i \in 1..Len(rows) : IsBlankName(rows[i])
  THEN CHOOSE i \in 1..Len(rows) :
         /\ IsBlankName(rows[i])
         /\ \A j \in 1..(i - 1) : ~IsBlankName(rows[j])
  ELSE Len(rows) + 1

\* sheet.getRange(appendStartRow, 1, n, numCols).setValues(rowsToAppend)
setValues(rows, start, new) ==
  LET last == Max(Len(rows), start - 1 + Len(new))
  IN UpToLastRow([i \in 1..last |->
       IF i >= start /\ i < start + Len(new) THEN new[i - start + 1]
       ELSE IF i <= Len(rows) THEN rows[i]
       ELSE EmptyRow])

\* an entry of directoryEntries / unionEntries
Entry(ln, fn) == [lastName |-> ln, firstName |-> fn, key |-> buildNameKey_(ln, fn)]

\* directoryEntries: the Directory rows with a name and a key, trimmed
RECURSIVE DirectoryEntries(_)
DirectoryEntries(dir) ==
  IF dir = <<>> THEN <<>>
  ELSE LET lastName == Trim(Head(dir).ln)
           firstName == Trim(Head(dir).fn)
       IN IF (lastName = <<>> /\ firstName = <<>>) \/ buildNameKey_(lastName, firstName) = Null
          THEN DirectoryEntries(Tail(dir))
          ELSE <<Entry(lastName, firstName)>> \o DirectoryEntries(Tail(dir))

\* the forEach over the entries that builds rowsToAppend; nextId is the last
\* ID used, when the tab has an ID column
RECURSIVE RowsToAppendNoMark(_, _, _, _)
RowsToAppendNoMark(entries, existingKeys, nextId, idCol) ==
  IF entries = <<>> THEN <<>>
  ELSE LET entry == Head(entries)
       IN IF entry.key \in existingKeys
          THEN RowsToAppendNoMark(Tail(entries), existingKeys, nextId, idCol)
          ELSE <<Row(IF idCol THEN nextId + 1 ELSE BlankId, entry.lastName, entry.firstName, {})>>
               \o RowsToAppendNoMark(Tail(entries), existingKeys,
                                     IF idCol THEN nextId + 1 ELSE nextId, idCol)

\* a forEach that numbers every new row nextId + 1, without counting on
RECURSIVE RowsToAppendOneId(_, _, _, _)
RowsToAppendOneId(entries, existingKeys, nextId, idCol) ==
  IF entries = <<>> THEN <<>>
  ELSE LET entry == Head(entries)
       IN IF entry.key \in existingKeys
          THEN RowsToAppendOneId(Tail(entries), existingKeys, nextId, idCol)
          ELSE <<Row(IF idCol THEN nextId + 1 ELSE BlankId, entry.lastName, entry.firstName, {})>>
               \o RowsToAppendOneId(Tail(entries), existingKeys \cup {entry.key}, nextId, idCol)

RECURSIVE RowsToAppend(_, _, _, _)
RowsToAppend(entries, existingKeys, nextId, idCol) ==
  IF entries = <<>> THEN <<>>
  ELSE LET entry == Head(entries)
       IN IF entry.key \in existingKeys
          THEN RowsToAppend(Tail(entries), existingKeys, nextId, idCol)
          ELSE <<Row(IF idCol THEN nextId + 1 ELSE BlankId, entry.lastName, entry.firstName, {})>>
               \o RowsToAppend(Tail(entries), existingKeys \cup {entry.key},
                               IF idCol THEN nextId + 1 ELSE nextId, idCol)

\* one iteration of a sync loop on one tab: read the keys and the largest ID,
\* build rowsToAppend, write it at getNextAvailableRow_
SyncTab(rows, entries, idCol) ==
  LET rowsToAppend == RowsToAppend(entries, ExistingKeys(rows), MaxId(rows), idCol)
  IN IF Len(rowsToAppend) > 0
     THEN setValues(rows, getNextAvailableRow_(rows), rowsToAppend)
     ELSE rows

\* the SHEETS_CONFIG.forEach of syncDirectoryNamesToAllTabs
DirectoryPass(t, dir) ==
  [name \in TabNames |->
     IF t[name].exists
     THEN [t[name] EXCEPT !.rows = SyncTab(@, DirectoryEntries(dir), HasIdCol(name))]
     ELSE t[name]]

\* the scan of one extra source sheet in buildUnionEntries_: entries of its
\* rows whose key is not yet in the union, in row order
RECURSIVE AddSheetToUnion(_, _)
AddSheetToUnion(union, rows) ==
  IF rows = <<>> THEN union
  ELSE LET ln == Trim(Head(rows).ln)
           fn == Trim(Head(rows).fn)
           key == buildNameKey_(ln, fn)
       IN IF (ln = <<>> /\ fn = <<>>) \/ key = Null
             \/ \E i \in 1..Len(union) : union[i].key = key
          THEN AddSheetToUnion(union, Tail(rows))
          ELSE AddSheetToUnion(Append(union, Entry(ln, fn)), Tail(rows))

RECURSIVE AddSheetsToUnion(_, _, _)
AddSheetsToUnion(union, t, names) ==
  IF names = <<>> THEN union
  ELSE AddSheetsToUnion(
         IF t[Head(names)].exists THEN AddSheetToUnion(union, t[Head(names)].rows) ELSE union,
         t, Tail(names))

\* the Directory entries, one per key, first one kept
RECURSIVE FirstPerKey(_, _)
FirstPerKey(union, entries) ==
  IF entries = <<>> THEN union
  ELSE IF \E i \in 1..Len(union) : union[i].key = Head(entries).key
       THEN FirstPerKey(union, Tail(entries))
       ELSE FirstPerKey(Append(union, Head(entries)), Tail(entries))

\* buildUnionEntries_: Array.from(unionMap.values()), in insertion order
buildUnionEntries_(t, directoryEntries) ==
  AddSheetsToUnion(FirstPerKey(<<>>, directoryEntries), t, EXTRA_SOURCE_SHEETS)

\* syncUnionNamesIntoAttendanceTabs_ and syncUnionNamesIntoAppsheetTabs_
UnionPass(t, unionEntries) ==
  [name \in TabNames |->
     IF t[name].exists
     THEN [t[name] EXCEPT !.rows = SyncTab(@, unionEntries, HasIdCol(name))]
     ELSE t[name]]

---------------------------------------------------------------------------
(* Sorting the roster tabs by the status in Attendance Stats               *)

\* getStatusRank_: String(rawStatus).toLowerCase().trim() against the four
\* labels it knows, on the status texts the model uses
getStatusRank_(rawStatus) ==
  CASE rawStatus \in {"core", "Core"} -> 0
    [] rawStatus \in {"active", "Active"} -> 1
    [] rawStatus \in {"inactive", "Inactive"} -> 2
    [] rawStatus \in {"archived", "Archived"} -> 3
    [] OTHER -> 4

\* statusMap: a later Attendance Stats row of a key overwrites an earlier one
StatusMapKeys(statsRows) == {RowKey(statsRows[i]) : i \in 1..Len(statsRows)} \ {Null}

StatusMap(statsRows) ==
  [key \in StatusMapKeys(statsRows) |->
     LET last == CHOOSE i \in 1..Len(statsRows) :
                   /\ RowKey(statsRows[i]) = key
                   /\ \A j \in (i + 1)..Len(statsRows) : RowKey(statsRows[j]) # key
     IN getStatusRank_(statsRows[last].status)]

\* collation order of the characters the model uses (blank and punctuation
\* before digits before letters)
CharOrder(c) ==
  CASE c = " " -> 0
    [] c = "," -> 1
    [] c = "." -> 2
    [] c = "0" -> 3
    [] c = "1" -> 4
    [] c \in {"a", "A"} -> 5
    [] c \in {"b", "B"} -> 6
    [] c \in {"c", "C"} -> 7
    [] c \in {"j", "J"} -> 8
    [] OTHER -> 9

\* a.localeCompare(b), of lower-cased texts: -1, 0 or 1
RECURSIVE localeCompare(_, _)
localeCompare(a, b) ==
  IF a = <<>> /\ b = <<>> THEN 0
  ELSE IF a = <<>> THEN 0 - 1
  ELSE IF b = <<>> THEN 1
  ELSE IF CharOrder(Head(a)) < CharOrder(Head(b)) THEN 0 - 1
  ELSE IF CharOrder(Head(a)) > CharOrder(Head(b)) THEN 1
  ELSE localeCompare(Tail(a), Tail(b))

\* rowsWithMeta of one tab
RowsWithMeta(rows, statusMap) ==
  [index \in 1..Len(rows) |->
     LET lnRaw == Trim(rows[index].ln)
         fnRaw == Trim(rows[index].fn)
         key == buildNameKey_(lnRaw, fnRaw)
     IN [row |-> rows[index],
         rank |-> IF key # Null /\ key \in DOMAIN statusMap THEN statusMap[key] ELSE 4,
         ln |-> LowerStr(lnRaw),
         fn |-> LowerStr(fnRaw),
         originalIndex |-> index]]

\* the comparator of rowsWithMeta.sort: a sorts before b
SortsBefore(a, b) ==
  IF a.rank # b.rank THEN a.rank < b.rank
  ELSE IF a.ln # b.ln THEN localeCompare(a.ln, b.ln) < 0
  ELSE IF a.fn # b.fn THEN localeCompare(a.fn, b.fn) < 0
  ELSE a.originalIndex < b.originalIndex

\* Array.prototype.sort with that comparator: insertion into a sorted prefix
RECURSIVE InsertSorted(_, _)
InsertSorted(sorted, item) ==
  IF sorted = <<>> THEN <<item>>
  ELSE IF SortsBefore(item, Head(sorted)) THEN <<item>> \o sorted
  ELSE <<Head(sorted)>> \o InsertSorted(Tail(sorted), item)

RECURSIVE SortMeta(_)
SortMeta(items) ==
  IF items = <<>> THEN <<>>
  ELSE InsertSorted(SortMeta(SubSeq(items, 1, Len(items) - 1)), items[Len(items)])

\* the sort of one tab: dataRange.setValues(sortedValues)
SortRows(rows, statusMap) ==
  LET sorted == SortMeta(RowsWithMeta(rows, statusMap))
  IN UpToLastRow([i \in 1..Len(rows) |-> sorted[i].row])

\* the SORT_SHEETS_CONFIG.forEach of sortSyncedTabsByAttendanceStatus, run on
\* an Attendance Stats tab that exists; no data rows there: nothing is sorted
SortTabs(t, statsRows) ==
  IF statsRows = <<>> THEN t
  ELSE [name \in TabNames |->
          IF t[name].exists /\ t[name].rows # <<>>
          THEN [t[name] EXCEPT !.rows = SortRows(@, StatusMap(statsRows))]
          ELSE t[name]]

\* sortSyncedTabsByAttendanceStatus, run by itself: without an Attendance
\* Stats tab it throws before any tab is touched
sortSyncedTabsByAttendanceStatus ==
  /\ prev' = tabs
  /\ tabs' = IF stats.exists THEN SortTabs(tabs, stats.rows) ELSE tabs
  /\ lastOp' = "sortSyncedTabsByAttendanceStatus"
  /\ UNCHANGED <<directory, config, stats, eaHead, ssHead, attLog, today,
                 outcome, prevOutcome, runs, bel, summary, guests,
                 passes,
                 pastoral,
                 applied,
                 logRuns>>

---------------------------------------------------------------------------
(* syncDirectoryNamesToAllTabs                                             *)

MaxRuns == 2

\* the tabs after the Directory pass and the two union passes
Reconciled(t, dir) ==
  LET afterDirectory == DirectoryPass(t, dir)
      unionEntries == buildUnionEntries_(afterDirectory, DirectoryEntries(dir))
  IN UnionPass(afterDirectory, unionEntries)

\* the tabs a run leaves: the three throws come before anything is written;
\* the throw of the sort, on a missing Attendance Stats, after the appends
WrittenTabsLateCheck(cfg, st, t, dir) ==
  IF cfg \in {"noConfig", "emptyB2"} THEN t
  ELSE IF cfg = "noDirectory" THEN Reconciled(t, <<>>)
  ELSE IF ~st.exists THEN Reconciled(t, dir)
  ELSE SortTabs(Reconciled(t, dir), st.rows)

WrittenTabs(cfg, st, t, dir) ==
  IF cfg # "ok" THEN t
  ELSE IF ~st.exists THEN Reconciled(t, dir)
  ELSE SortTabs(Reconciled(t, dir), st.rows)

\* how the run ends: the error thrown, or "done"
RunOutcome(cfg, st) ==
  IF cfg # "ok" THEN cfg
  ELSE IF ~st.exists THEN "noAttendanceStats"
  ELSE "done"

\* one run, whole
syncDirectoryNamesToAllTabs ==
  /\ runs < MaxRuns
  /\ runs' = runs + 1
  /\ prev' = tabs
  /\ prevOutcome' = outcome
  /\ outcome' = RunOutcome(config, stats)
  /\ tabs' = WrittenTabs(config, stats, tabs, directory)
  /\ lastOp' = "syncDirectoryNamesToAllTabs"
  /\ UNCHANGED <<directory, config, stats, eaHead, ssHead, attLog, today, bel, summary,
                 guests,
                 passes,
                 pastoral,
                 applied,
                 logRuns>>

---------------------------------------------------------------------------
(* Dates: a Date is a number of ticks since Jan 1 of year 0, midnight.     *)
(* Years have the twelve months of a common year.                          *)

TicksPerDay == 2
NoDate == 0 - 1

DaysInMonth == <<31, 28, 31, 30, 31, 30, 31, 31, 30, 31, 30, 31>>

RECURSIVE DaysBeforeMonth(_)
DaysBeforeMonth(monthIndex) ==
  IF monthIndex = 0 THEN 0
  ELSE DaysInMonth[monthIndex] + DaysBeforeMonth(monthIndex - 1)

DaysPerYear == DaysBeforeMonth(12)

\* new Date(year, monthIndex, day): midnight; day 0 is the last day of the
\* month before
NewDate(year, monthIndex, day) ==
  (year * DaysPerYear + DaysBeforeMonth(monthIndex) + day - 1) * TicksPerDay

\* a Date at a time of day
DateAt(year, monthIndex, day, tick) == NewDate(year, monthIndex, day) + tick

\* date.getFullYear()
getFullYear(date) == (date \div TicksPerDay) \div DaysPerYear

\* the date with its time of day, as a key
toTimeString(date) == date

\* date.toDateString(): the calendar day
toDateString(date) == date \div TicksPerDay

---------------------------------------------------------------------------
(* matchOrAssignBelCodes                                                   *)

\* extractNumericBel: the numeric ID of a cell, or NoBelId for null
NoBelId == 0 - 1

extractNumericBel(codeValue) == IF codeValue >= 0 THEN codeValue ELSE NoBelId

\* row 4 of Event Attendance and row 3 of Sunday Service: header rows of the
\* reconciliation, which eData.slice(3) and sData.slice(2) scan as data
HeaderNameRow == Row(TextId, <<"l">>, <<"f">>, {})

SetMax(S) == CHOOSE n \in S : \A m \in S : m <= n

\* belMap.set(key, id)
MapSet(map, key, id) == [k \in (DOMAIN map) \cup {key} |-> IF k = key THEN id ELSE map[k]]

\* the state of one run: belMap, allUsedCodes, codeCounter, the values
\* generateBEL has returned, and results
BelState(belMap, used, counter, generated, rawData) ==
  [belMap |-> belMap, used |-> used, codeCounter |-> counter,
   generated |-> generated, rawData |-> rawData]

RECURSIVE populateFromDirectory(_, _)
populateFromDirectory(st, rows) ==
  IF rows = <<>> THEN st
  ELSE LET row == Head(rows)
           id == extractNumericBel(row.id)
           key == normalizeName(LastCommaFirst(row.ln, row.fn))
       IN IF id # NoBelId /\ row.ln # <<>> /\ row.fn # <<>>
          THEN populateFromDirectory(
                 [st EXCEPT !.used = @ \cup {id},
                            !.belMap = IF key \in DOMAIN @ THEN @ ELSE MapSet(@, key, id)],
                 Tail(rows))
          ELSE populateFromDirectory(st, Tail(rows))

RECURSIVE populateFromAttendance(_, _)
populateFromAttendance(st, rows) ==
  IF rows = <<>> THEN st
  ELSE LET row == Head(rows)
           id == extractNumericBel(row.id)
           key == normalizeName(LastCommaFirst(row.ln, row.fn))
       IN IF id # NoBelId
          THEN populateFromAttendance(
                 [st EXCEPT !.used = @ \cup {id},
                            !.belMap = IF key # <<>> /\ key \notin DOMAIN @
                                       THEN MapSet(@, key, id) ELSE @],
                 Tail(rows))
          ELSE populateFromAttendance(st, Tail(rows))

\* while (allUsedCodes.has(codeCounter)) codeCounter++
RECURSIVE SkipUsed(_, _)
SkipUsed(used, counter) == IF counter \in used THEN SkipUsed(used, counter + 1) ELSE counter

\* let codeCounter = allUsedCodes.size > 0 ? Math.max(...allUsedCodes) + 1 : 1
CodeCounterLowest(used) == SkipUsed(used, 1)

CodeCounterFromSize(used) == Cardinality(used) + 1

CodeCounterStart(used) == IF used # {} THEN SetMax(used) + 1 ELSE 1

\* generateBEL: the state after the call; the value returned is the last of
\* generated
generateBEL(st) ==
  LET code == SkipUsed(st.used, st.codeCounter)
  IN [st EXCEPT !.used = @ \cup {code},
                !.codeCounter = code + 1,
                !.generated = Append(@, code)]

\* let bel = belMap.get(key) || generateBEL(); belMap.set(key, bel)
AssignBel(st, key) ==
  IF key \in DOMAIN st.belMap /\ st.belMap[key] # 0
  THEN st
  ELSE LET g == generateBEL(st)
       IN [g EXCEPT !.belMap = MapSet(@, key, g.generated[Len(g.generated)])]

Record(belCode, first, last, eventName, date) ==
  [bel |-> belCode, firstName |-> first, lastName |-> last, eventName |-> eventName, date |-> date]

\* the records of one Event Attendance row: its TRUE columns that have a date
\* and an event name, in column order
RECURSIVE EventRecords(_, _, _, _)
EventRecords(row, belCode, head, c) ==
  IF c > Len(head) THEN <<>>
  ELSE (IF c \in row.att /\ head[c].date # NoDate /\ head[c].name # ""
        THEN <<Record(belCode, row.fn, row.ln, head[c].name, head[c].date)>>
        ELSE <<>>)
       \o EventRecords(row, belCode, head, c + 1)

\* the records of one Sunday Service row
RECURSIVE ServiceRecords(_, _, _, _)
ServiceRecords(row, belCode, dates, c) ==
  IF c > Len(dates) THEN <<>>
  ELSE (IF c \in row.att /\ dates[c] # NoDate
        THEN <<Record(belCode, row.fn, row.ln, "Sunday Service", dates[c])>>
        ELSE <<>>)
       \o ServiceRecords(row, belCode, dates, c + 1)

\* eData.slice(3).forEach
RECURSIVE ScanEvent(_, _, _)
ScanEvent(st, rows, head) ==
  IF rows = <<>> THEN st
  ELSE LET row == Head(rows)
           key == normalizeName(LastCommaFirst(row.ln, row.fn))
           st1 == AssignBel(st, key)
       IN IF key = <<>> THEN ScanEvent(st, Tail(rows), head)
          ELSE ScanEvent(
                 [st1 EXCEPT !.rawData = @ \o EventRecords(row, st1.belMap[key], head, 1)],
                 Tail(rows), head)

\* sData.slice(2).forEach
RECURSIVE ScanService(_, _, _)
ScanService(st, rows, dates) ==
  IF rows = <<>> THEN st
  ELSE LET row == Head(rows)
           key == normalizeName(LastCommaFirst(row.ln, row.fn))
           st1 == AssignBel(st, key)
       IN IF key = <<>> THEN ScanService(st, Tail(rows), dates)
          ELSE ScanService(
                 [st1 EXCEPT !.rawData = @ \o ServiceRecords(row, st1.belMap[key], dates, 1)],
                 Tail(rows), dates)

\* String(event).toLowerCase().trim() === "pastoral check-in", on the event
\* labels the model uses
IsPastoralCheckIn(event) == event \in {"Pastoral Check-In", "pastoral check-in "}

\* lData.slice(1).forEach; pastoralSeen holds the pairs (bel, calendar day)
RECURSIVE ScanLog(_, _, _)
ScanLog(st, rows, pastoralSeen) ==
  IF rows = <<>> THEN st
  ELSE LET row == Head(rows)
           key == normalizeName(LastCommaFirst(row.ln, row.fn))
           st1 == AssignBel(st, key)
           dedupeKey == <<st1.belMap[key], toDateString(row.date)>>
       IN IF row.event = "" \/ ~IsPastoralCheckIn(row.event) \/ key = <<>>
          THEN ScanLog(st, Tail(rows), pastoralSeen)
          ELSE IF row.date = NoDate \/ dedupeKey \in pastoralSeen
          THEN ScanLog(st1, Tail(rows), pastoralSeen)
          ELSE ScanLog(
                 [st1 EXCEPT !.rawData = Append(@, Record(st1.belMap[key], row.fn, row.ln,
                                                          "Pastoral Check-In", row.date))],
                 Tail(rows), pastoralSeen \cup {dedupeKey})

\* belMap and allUsedCodes after the three populate calls; the header rows
\* of the Directory hold no numeric ID, so its scan binds nothing for them
Populated(dData, eData, sData) ==
  populateFromAttendance(
    populateFromAttendance(
      populateFromDirectory(BelState(<<>>, {}, 0, <<>>, <<>>), dData),
      eData),
    sData)

\* getSheetData of a roster tab, from the last header row on; [] when the
\* tab is missing
SheetData(tab) == IF tab.exists THEN <<HeaderNameRow>> \o tab.rows ELSE <<>>

\* the run, whole; used0 is allUsedCodes when the generator is set up
MatchOrAssign(dData, ea, eaHeader, ss, ssHeader, lData) ==
  LET eData == SheetData(ea)
      sData == SheetData(ss)
      p == Populated(dData, eData, sData)
      start == [p EXCEPT !.codeCounter = CodeCounterStart(p.used)]
      final == ScanLog(ScanService(ScanEvent(start, eData, eaHeader), sData, ssHeader),
                       lData, {})
  IN [belMap |-> final.belMap, used0 |-> p.used, used |-> final.used,
      generated |-> final.generated, rawData |-> final.rawData]

NoBel == [belMap |-> <<>>, used0 |-> {}, used |-> {}, generated |-> <<>>, rawData |-> <<>>]

matchOrAssignBelCodes ==
  /\ bel' = MatchOrAssign(directory, tabs["Event Attendance"], eaHead,
                          tabs["Sunday Service"], ssHead, attLog)
  /\ lastOp' = "matchOrAssignBelCodes"
  /\ UNCHANGED <<directory, config, tabs, stats, eaHead, ssHead, attLog, today,
                 prev, outcome, prevOutcome, runs, summary,
                 guests,
                 passes,
                 pastoral,
                 applied,
                 logRuns>>

---------------------------------------------------------------------------
(* calculateAttendanceStats                                                *)

\* /sunday service/i.test(eventName), on the event labels the model uses
IsSundayService(eventName) == eventName \in {"Sunday Service", "SUNDAY SERVICE 9am"}

\* eventKey: the label, collapsed for a Sunday service, and date.toDateString()
EventKey(eventName, date) ==
  <<IF IsSundayService(eventName) THEN "Sunday Service" ELSE eventName, toDateString(date)>>

\* q1_start .. q4_end of the year
QuarterStart(year, q) == NewDate(year, 3 * (q - 1), 1)

QuarterEnd(year, q) == IF q = 4 THEN NewDate(year, 11, 31) ELSE NewDate(year, 3 * q, 0)

\* r.date >= qN_start && r.date <= qN_end
InQuarter(date, year, q) == date >= QuarterStart(year, q) /\ date <= QuarterEnd(year, q)

\* the bels of grouped, in insertion order
RECURSIVE GroupOrder(_, _)
GroupOrder(rawData, seen) ==
  IF rawData = <<>> THEN <<>>
  ELSE IF Head(rawData).bel \in seen THEN GroupOrder(Tail(rawData), seen)
  ELSE <<Head(rawData).bel>> \o GroupOrder(Tail(rawData), seen \cup {Head(rawData).bel})

\* grouped.get(bel): the records of a bel, in the order of rawData
GroupOf(rawData, belCode) == SelectSeq(rawData, LAMBDA r : r.bel = belCode)

\* qNEvents.size
QuarterCount(records, year, q) ==
  Cardinality({EventKey(records[i].eventName, records[i].date) :
                 i \in {j \in 1..Len(records) : InQuarter(records[j].date, year, q)}})

\* records.sort by date, descending; records[0]: the first record, in the
\* order of rawData, among those with the latest date
MostRecentRecord(records) ==
  records[CHOOSE i \in 1..Len(records) :
            /\ \A j \in 1..Len(records) : records[j].date <= records[i].date
            /\ \A j \in 1..(i - 1) : records[j].date < records[i].date]

\* /pastoral\s*check[-\s]*in/i.test(lastEventName), on the labels the model uses
LastEventName(eventKeyLabel) ==
  IF eventKeyLabel \in {"Pastoral Check-In", "pastoral check-in "}
  THEN "Pastoral Check-In" ELSE eventKeyLabel

\* directoryNamesSet
DirectoryNamesSet(dData) ==
  {normalizeName(LastCommaFirst(dData[i].ln, dData[i].fn)) :
     i \in {j \in 1..Len(dData) : dData[j].ln # <<>> /\ dData[j].fn # <<>>}}

\* the summary row of one bel
SummaryRow(belCode, records, year, dData) ==
  LET mostRecentRecord == MostRecentRecord(records)
      q1 == QuarterCount(records, year, 1)
      q2 == QuarterCount(records, year, 2)
      q3 == QuarterCount(records, year, 3)
      q4 == QuarterCount(records, year, 4)
  IN [bel |-> belCode,
      firstName |-> mostRecentRecord.firstName,
      lastName |-> mostRecentRecord.lastName,
      q |-> <<q1, q2, q3, q4>>,
      total |-> q1 + q2 + q3 + q4,
      lastDate |-> mostRecentRecord.date,
      lastEventName |-> LastEventName(EventKey(mostRecentRecord.eventName,
                                               mostRecentRecord.date)[1]),
      guest |-> IF normalizeName(LastCommaFirst(mostRecentRecord.lastName,
                                                mostRecentRecord.firstName))
                     \in DirectoryNamesSet(dData)
                THEN "" ELSE "Guest"]

\* the summary of a run at the time now
CalculateStats(rawData, dData, now) ==
  LET order == GroupOrder(rawData, {})
  IN [g \in 1..Len(order) |->
        SummaryRow(order[g], GroupOf(rawData, order[g]), getFullYear(now), dData)]

calculateAttendanceStats ==
  /\ LET result == MatchOrAssign(directory, tabs["Event Attendance"], eaHead,
                                 tabs["Sunday Service"], ssHead, attLog)
     IN /\ bel' = result
        /\ summary' = CalculateStats(result.rawData, directory, today)
  /\ lastOp' = "calculateAttendanceStats"
  /\ UNCHANGED <<directory, config, tabs, stats, eaHead, ssHead, attLog, today,
                 prev, outcome, prevOutcome, runs,
                 guests,
                 passes,
                 pastoral,
                 applied,
                 logRuns>>

---------------------------------------------------------------------------
(* updateActivityLevels, performFinalSort and updateAttendanceStatsSheet   *)

\* a data row of Attendance Stats: last name (C), first name (D), the guest
\* flag (E) and the activity level (F)
StatsRowOf(ln, fn, guest, status) == [ln |-> ln, fn |-> fn, guest |-> guest, status |-> status]

\* cutoff90: today, setDate(getDate() - 90)
Cutoff90(now) == now - 90 * TicksPerDay

\* cutoff12mo: today, setFullYear(getFullYear() - 1)
Cutoff12mo(now) == now - DaysPerYear * TicksPerDay

\* the records that rawData.forEach enters under the key in attMap: those
\* with a first name and a last name
AttRecords(rawData, key) ==
  SelectSeq(rawData, LAMBDA r :
    /\ r.firstName # <<>>
    /\ r.lastName # <<>>
    /\ normalizeName(LastCommaFirst(r.lastName, r.firstName)) = key)

\* attMap.get(key).count90
Count90(records, now) == Len(SelectSeq(records, LAMBDA r : r.date >= Cutoff90(now)))

\* attMap.get(key).lastDate
LastDate(records) ==
  records[CHOOSE i \in 1..Len(records) : \A j \in 1..Len(records) : records[j].date <= records[i].date].date

\* the callback of nameData.map: the level of one row
Level(records, now) ==
  LET count90 == IF records # <<>> THEN Count90(records, now) ELSE 0
  IN IF records # <<>> /\ LastDate(records) < Cutoff12mo(now) THEN "Archive"
     ELSE IF count90 >= 12 THEN "Core"
     ELSE IF count90 >= 3 THEN "Active"
     ELSE "Inactive"

\* column F after sheet.getRange(3, 6, out.length, 1).setValues(out)
ActivityLevels(statsRows, rawData, now) ==
  [i \in 1..Len(statsRows) |->
     [statsRows[i] EXCEPT
        !.status = Level(AttRecords(rawData,
                           normalizeName(LastCommaFirst(statsRows[i].ln, statsRows[i].fn))),
                         now)]]

updateActivityLevels ==
  /\ stats.exists
  /\ stats.rows # <<>>
  /\ LET result == MatchOrAssign(directory, tabs["Event Attendance"], eaHead,
                                 tabs["Sunday Service"], ssHead, attLog)
     IN /\ bel' = result
        /\ stats' = [stats EXCEPT !.rows = ActivityLevels(@, result.rawData, today)]
  /\ lastOp' = "updateActivityLevels"
  /\ UNCHANGED <<directory, config, tabs, eaHead, ssHead, attLog, today,
                 prev, outcome, prevOutcome, runs, summary,
                 guests,
                 passes,
                 pastoral,
                 applied,
                 logRuns>>

\* order[a[5]] || 99
FinalLevel(status) ==
  CASE status = "Core" -> 1
    [] status = "Active" -> 2
    [] status = "Inactive" -> 3
    [] status = "Archive" -> 4
    [] OTHER -> 99

\* the comparator of data.sort in performFinalSort: a sorts before b; rows
\* equal on the four keys compare 0
FinalSortsBefore(a, b) ==
  LET guestA == a.guest = "Guest"
      guestB == b.guest = "Guest"
      lastA == LowerStr(a.ln)
      lastB == LowerStr(b.ln)
      firstA == LowerStr(a.fn)
      firstB == LowerStr(b.fn)
  IN IF guestA # guestB THEN guestA
     ELSE IF FinalLevel(a.status) # FinalLevel(b.status)
     THEN FinalLevel(a.status) < FinalLevel(b.status)
     ELSE IF lastA # lastB THEN StringLess(lastA, lastB)
     ELSE StringLess(firstA, firstB)

\* a sort that puts a row before the rows it compares equal to
RECURSIVE InsertFinalUnstable(_, _)
InsertFinalUnstable(sorted, item) ==
  IF sorted = <<>> THEN <<item>>
  ELSE IF ~FinalSortsBefore(Head(sorted), item) THEN <<item>> \o sorted
  ELSE <<Head(sorted)>> \o InsertFinalUnstable(Tail(sorted), item)

\* Array.prototype.sort with the comparator, stable
RECURSIVE InsertFinal(_, _)
InsertFinal(sorted, item) ==
  IF sorted = <<>> THEN <<item>>
  ELSE IF FinalSortsBefore(item, Head(sorted)) THEN <<item>> \o sorted
  ELSE <<Head(sorted)>> \o InsertFinal(Tail(sorted), item)

\* data.sort(...); range.setValues(data)
RECURSIVE FinalSort(_)
FinalSort(rows) ==
  IF rows = <<>> THEN <<>>
  ELSE InsertFinal(FinalSort(SubSeq(rows, 1, Len(rows) - 1)), rows[Len(rows)])

performFinalSort ==
  /\ stats.exists
  /\ stats.rows # <<>>
  /\ stats' = [stats EXCEPT !.rows = FinalSort(@)]
  /\ lastOp' = "performFinalSort"
  /\ UNCHANGED <<directory, config, tabs, eaHead, ssHead, attLog, today,
                 prev, outcome, prevOutcome, runs, bel, summary, guests,
                 passes,
                 pastoral,
                 applied,
                 logRuns>>

\* output: the rows written from row 3, column F left blank
StatsOutput(data) ==
  [i \in 1..Len(data) |-> StatsRowOf(data[i].lastName, data[i].firstName, data[i].guest, "")]

\* the main flow: the summary is written over the old rows, then the levels
\* are filled in and the rows sorted; nothing is written when there is no
\* record or no Attendance Stats tab
updateAttendanceStatsSheet ==
  /\ LET result == MatchOrAssign(directory, tabs["Event Attendance"], eaHead,
                                 tabs["Sunday Service"], ssHead, attLog)
         data == CalculateStats(result.rawData, directory, today)
     IN /\ bel' = result
        /\ summary' = data
        /\ stats' = IF data = <<>> \/ ~stats.exists THEN stats
                    ELSE [stats EXCEPT !.rows =
                            FinalSort(ActivityLevels(StatsOutput(data), result.rawData, today))]
  /\ lastOp' = "updateAttendanceStatsSheet"
  /\ UNCHANGED <<directory, config, tabs, eaHead, ssHead, attLog, today,
                 prev, outcome, prevOutcome, runs, guests,
                 passes,
                 pastoral,
                 applied,
                 logRuns>>

---------------------------------------------------------------------------
(* processMemberStatus                                                     *)

\* the character class [a-z]
IsAZ(c) == c \in {"a", "b", "c", "f", "j", "l"}

\* normalizeString: str.toLowerCase().trim().replace(/[^a-z]/g, '')
normalizeString(str) ==
  IF str = <<>> THEN <<>>
  ELSE SelectSeq(Trim(LowerStr(str)), IsAZ)

\* str.split(' ')[0]: the characters before the first blank
RECURSIVE SplitFirst(_)
SplitFirst(str) ==
  IF str = <<>> \/ Head(str) = " " THEN <<>>
  ELSE <<Head(str)>> \o SplitFirst(Tail(str))

\* normLast + '_' + normFirst when both parts are non-empty, else no key
MemberKey(lastName, firstName) ==
  LET normLast == normalizeString(lastName)
      normFirst == normalizeString(SplitFirst(firstName))
  IN IF normLast # <<>> /\ normFirst # <<>> THEN normLast \o <<"_">> \o normFirst ELSE Null

\* the keys of directoryMap; the Directory's header rows 2 and 3 name no one
buildDirectoryMap(dir) ==
  {MemberKey(dir[i].ln, dir[i].fn) :
     i \in {j \in 1..Len(dir) : dir[j].ln # <<>> /\ dir[j].fn # <<>>}} \ {Null}

\* processSheet: column H of every row from startRow to getLastRow
processSheet(tab, directoryMap) ==
  IF ~tab.exists THEN tab
  ELSE [tab EXCEPT !.rows =
          [i \in 1..Len(tab.rows) |->
             LET lastName == tab.rows[i].ln
                 firstName == tab.rows[i].fn
                 key == MemberKey(lastName, firstName)
             IN [tab.rows[i] EXCEPT !.type =
                   IF lastName = <<>> /\ firstName = <<>> THEN "Guest"
                   ELSE IF key # Null /\ key \in directoryMap THEN "Member"
                   ELSE "Guest"]]]

\* the whole run; without Config, B2 or the Directory it returns at once
processMemberStatus ==
  /\ tabs' = IF config # "ok" THEN tabs
             ELSE [name \in TabNames |->
                     IF name \in {"Sunday Service", "Event Attendance"}
                     THEN processSheet(tabs[name], buildDirectoryMap(directory))
                     ELSE tabs[name]]
  /\ lastOp' = "processMemberStatus"
  /\ UNCHANGED <<directory, config, stats, eaHead, ssHead, attLog, today,
                 prev, outcome, prevOutcome, runs, bel, summary,
                 guests,
                 passes,
                 pastoral,
                 applied,
                 logRuns>>

---------------------------------------------------------------------------
(* updateGuestData                                                         *)

\* a Directory row with its registration date (column U), NoDate when the
\* cell holds no Date
DirRow(id, ln, fn, regDate) ==
  [id |-> id, ln |-> ln, fn |-> fn, att |-> {}, type |-> "", regDate |-> regDate]

\* the key of getDirectoryData and of the filter: (ln + "," + fn).toLowerCase()
DirKey(ln, fn) == LowerStr(ln \o <<",">> \o fn)

\* the keys of the Map that getDirectoryData returns: rows with both names
\* trimmed non-empty and regDate instanceof Date
getDirectoryData(dir) ==
  {DirKey(Trim(dir[i].ln), Trim(dir[i].fn)) :
     i \in {j \in 1..Len(dir) :
              /\ Trim(dir[j].fn) # <<>>
              /\ Trim(dir[j].ln) # <<>>
              /\ dir[j].regDate # NoDate}}

\* directoryMap.get(dirKey) || ""
RegDateOf(dir, dirKey) ==
  IF dirKey \in getDirectoryData(dir)
  THEN dir[CHOOSE i \in 1..Len(dir) :
             /\ Trim(dir[i].fn) # <<>> /\ Trim(dir[i].ln) # <<>> /\ dir[i].regDate # NoDate
             /\ DirKey(Trim(dir[i].ln), Trim(dir[i].fn)) = dirKey
             /\ \A j \in 1..(i - 1) :
                  ~(/\ Trim(dir[j].fn) # <<>> /\ Trim(dir[j].ln) # <<>> /\ dir[j].regDate # NoDate
                    /\ DirKey(Trim(dir[j].ln), Trim(dir[j].fn)) = dirKey)].regDate
  ELSE NoDate

\* buildGuestKey, "" as the empty sequence
buildGuestKey(lastName, firstName) ==
  LET ln == LowerStr(Trim(lastName))
      fn == LowerStr(Trim(firstName))
  IN IF ln # <<>> /\ fn # <<>> THEN ln \o <<",">> \o fn
     ELSE IF ln # <<>> THEN ln
     ELSE fn

\* if (key && !guests.has(key)) guests.set(key, {firstName, lastName})
AddGuest(found, lastName, firstName) ==
  LET key == buildGuestKey(lastName, firstName)
  IN IF key # <<>> /\ \A i \in 1..Len(found) : found[i].key # key
     THEN Append(found, [key |-> key, lastName |-> lastName, firstName |-> firstName])
     ELSE found

\* the loop of getUniqueGuests over the data rows of a roster tab
RECURSIVE GuestsOfRoster(_, _)
GuestsOfRoster(found, rows) ==
  IF rows = <<>> THEN found
  ELSE LET lastName == Trim(Head(rows).ln)
           firstName == Trim(Head(rows).fn)
       IN IF (firstName # <<>> \/ lastName # <<>>) /\ Head(rows).type = "Guest"
             /\ Head(rows).att # {}
          THEN GuestsOfRoster(AddGuest(found, lastName, firstName), Tail(rows))
          ELSE GuestsOfRoster(found, Tail(rows))

\* eventNameRaw.toLowerCase() === "pastoral check -in", on the labels the
\* model uses
IsPastoralCheckDashIn(event) == event \in {"Pastoral check -In", "pastoral check -in"}

\* the loop of getUniqueGuests over the data rows of the Attendance Log
RECURSIVE GuestsOfLog(_, _)
GuestsOfLog(found, rows) ==
  IF rows = <<>> THEN found
  ELSE LET lastName == Trim(Head(rows).ln)
           firstName == Trim(Head(rows).fn)
       IN IF (firstName # <<>> \/ lastName # <<>>) /\ IsPastoralCheckDashIn(Head(rows).event)
          THEN GuestsOfLog(AddGuest(found, lastName, firstName), Tail(rows))
          ELSE GuestsOfLog(found, Tail(rows))

\* getUniqueGuests: the values of the Map, in insertion order
getUniqueGuests(serviceRows, eventRows, logRows) ==
  GuestsOfLog(GuestsOfRoster(GuestsOfRoster(<<>>, serviceRows), eventRows), logRows)

\* filteredGuests: the guests not in directoryMap
FilteredGuests(uniqueGuests, directoryMap) ==
  SelectSeq(uniqueGuests, LAMBDA guest :
    ~(/\ guest.lastName # <<>>
      /\ guest.firstName # <<>>
      /\ DirKey(guest.lastName, guest.firstName) \in directoryMap))

\* the comparator of filteredGuests.sort: a sorts before b
GuestSortsBefore(a, b) ==
  IF a.lastName # b.lastName THEN StringLess(a.lastName, b.lastName)
  ELSE StringLess(a.firstName, b.firstName)

\* Array.prototype.sort with that comparator, stable
RECURSIVE InsertGuest(_, _)
InsertGuest(sorted, guest) ==
  IF sorted = <<>> THEN <<guest>>
  ELSE IF GuestSortsBefore(guest, Head(sorted)) THEN <<guest>> \o sorted
  ELSE <<Head(sorted)>> \o InsertGuest(Tail(sorted), guest)

RECURSIVE SortGuests(_)
SortGuests(items) ==
  IF items = <<>> THEN <<>>
  ELSE InsertGuest(SortGuests(SubSeq(items, 1, Len(items) - 1)), items[Len(items)])

\* finalData: the rows written to the Guests tab from row 4
GuestRows(dir, directoryMap, serviceRows, eventRows, logRows) ==
  LET sortedGuests == SortGuests(FilteredGuests(
                        getUniqueGuests(serviceRows, eventRows, logRows), directoryMap))
  IN [i \in 1..Len(sortedGuests) |->
        [ln |-> sortedGuests[i].lastName,
         fn |-> sortedGuests[i].firstName,
         regDate |-> IF sortedGuests[i].lastName # <<>> /\ sortedGuests[i].firstName # <<>>
                     THEN RegDateOf(dir, DirKey(sortedGuests[i].lastName,
                                                sortedGuests[i].firstName))
                     ELSE NoDate]]

\* the rows of the Guests tab after a run; an error thrown before the write
\* is caught and logged, and a missing Directory tab gives an empty map
GuestsWritten(cfg, t, dir, logRows, old) ==
  IF cfg \in {"noConfig", "emptyB2"}
     \/ ~t["Sunday Service"].exists \/ ~t["Event Attendance"].exists
  THEN old
  ELSE GuestRows(IF cfg = "ok" THEN dir ELSE <<>>,
                 IF cfg = "ok" THEN getDirectoryData(dir) ELSE {},
                 t["Sunday Service"].rows, t["Event Attendance"].rows, logRows)

updateGuestData ==
  /\ guests' = GuestsWritten(config, tabs, directory, attLog, guests)
  /\ lastOp' = "updateGuestData"
  /\ UNCHANGED <<directory, config, tabs, stats, eaHead, ssHead, attLog, today,
                 prev, outcome, prevOutcome, runs, bel, summary,
                 passes,
                 pastoral,
                 applied,
                 logRuns>>

---------------------------------------------------------------------------
(* Passes of syncDirectoryNamesToAllTabs in flight on one target: the      *)
(* script takes no lock, so the calls of one pass on the sheet interleave  *)
(* with the calls of another                                               *)

MaxPasses == 2

Passes == 1..MaxPasses

\* the target the passes are followed on; it has an ID column and is no
\* source of the union
RaceTarget == "Appsheet Event"

\* a pass that has not started. pc is its position in the forEach body of the
\* target, body the loop it is in (SHEETS_CONFIG.forEach, then the forEach of
\* syncUnionNamesIntoAppsheetTabs_), rowsToAppend and appendStartRow the
\* locals of that body, ids the IDs it has written so far, alone whether no
\* other pass was in flight when it started
IdlePass ==
  [pc |-> "idle", body |-> "directory", rowsToAppend |-> <<>>,
   appendStartRow |-> 0, ids |-> <<>>, alone |-> TRUE]

IdlePasses == [p \in Passes |-> IdlePass]

\* directoryEntries for the first loop, unionEntries for the second
EntriesOf(body, t, dir) ==
  IF body = "directory" THEN DirectoryEntries(dir)
  ELSE buildUnionEntries_(t, DirectoryEntries(dir))

\* where a pass stands when the body of a loop has ended on the target; the
\* locals of the body are gone
AfterBody(pass) ==
  [pass EXCEPT !.pc = IF pass.body = "directory" THEN "start" ELSE "done",
               !.body = "union",
               !.rowsToAppend = <<>>,
               !.appendStartRow = 0]

\* the IDs of the rows of rowsToAppend
RECURSIVE IdsOf(_)
IdsOf(rows) == IF rows = <<>> THEN <<>> ELSE <<Head(rows).id>> \o IdsOf(Tail(rows))

\* the getValues calls of a body and what it computes from them: existingKeys,
\* maxId and rowsToAppend; an empty rowsToAppend ends the body
readTarget(p) ==
  /\ passes[p].pc \in {"idle", "start"}
  /\ tabs[RaceTarget].exists
  /\ LET pass == passes[p]
         rows == tabs[RaceTarget].rows
         rowsToAppend == RowsToAppend(EntriesOf(pass.body, tabs, directory),
                                      ExistingKeys(rows), MaxId(rows), TRUE)
         alone == IF pass.pc = "idle"
                  THEN \A q \in Passes \ {p} : passes[q].pc \in {"idle", "done"}
                  ELSE pass.alone
         read == [pass EXCEPT !.pc = "read", !.rowsToAppend = rowsToAppend,
                              !.alone = alone]
     IN passes' = [passes EXCEPT ![p] = IF Len(rowsToAppend) > 0 THEN read
                                        ELSE AfterBody(read)]
  /\ lastOp' = "readTarget"
  /\ UNCHANGED <<directory, config, tabs, stats, eaHead, ssHead, attLog, today,
                 prev, outcome, prevOutcome, runs, bel, summary, guests,
                 pastoral,
                 applied,
                 logRuns>>

\* the call of getNextAvailableRow_ on the sheet as it is now
locateRow(p) ==
  /\ passes[p].pc = "read"
  /\ passes' = [passes EXCEPT ![p].pc = "located",
                              ![p].appendStartRow =
                                getNextAvailableRow_(tabs[RaceTarget].rows)]
  /\ lastOp' = "locateRow"
  /\ UNCHANGED <<directory, config, tabs, stats, eaHead, ssHead, attLog, today,
                 prev, outcome, prevOutcome, runs, bel, summary, guests,
                 pastoral,
                 applied,
                 logRuns>>

\* the setValues call of the body
writeRows(p) ==
  /\ passes[p].pc = "located"
  /\ LET pass == passes[p]
     IN /\ tabs' = [tabs EXCEPT ![RaceTarget].rows =
                      setValues(tabs[RaceTarget].rows, pass.appendStartRow,
                                pass.rowsToAppend)]
        /\ passes' = [passes EXCEPT ![p] =
                        AfterBody([pass EXCEPT !.ids = pass.ids \o IdsOf(pass.rowsToAppend)])]
  /\ lastOp' = "writeRows"
  /\ UNCHANGED <<directory, config, stats, eaHead, ssHead, attLog, today,
                 prev, outcome, prevOutcome, runs, bel, summary, guests,
                 pastoral,
                 applied,
                 logRuns>>

---------------------------------------------------------------------------
(* processAttendanceLogV2: the rows of the Attendance Log that are not     *)
(* marked are recorded on Sunday Service, Pastoral Check-In or Event       *)
(* Attendance.  Of the two declarations of the function in the file the    *)
(* second one is in force.  The full name (column B) of a log row that     *)
(* lacks a name cell is taken to be blank, and every destination write     *)
(* succeeds.                                                               *)

\* a Date cell of column G holding text that new Date() cannot read
TextDate == 0 - 2

\* a data row of the Attendance Log: ID (A), names (C, D), event (F), event
\* date (G), timestamp (H), Status (I) and Remarks (J)
LogEntry(id, ln, fn, event, date, status) ==
  [id |-> id, ln |-> ln, fn |-> fn, event |-> event, date |-> date,
   ts |-> NoDate, status |-> status, remarks |-> ""]

\* the date cells of a data row of Pastoral Check-In: recent (E), previous (F)
CheckInDates(recent, previous) == [recent |-> recent, previous |-> previous]

\* the date cells of a data row, blank below the last row that holds any
DatesAt(dates, i) == IF i <= Len(dates) THEN dates[i] ELSE CheckInDates(NoDate, NoDate)

\* recentCell.setValue, prevCell.setValue
WithDates(dates, i, cells) ==
  [k \in 1..Max(Len(dates), i) |-> IF k = i THEN cells ELSE DatesAt(dates, k)]

\* the character class [a-z,\s], on the characters the model uses
IsNameChar(c) == c \in {"a", "b", "c", "f", "j", "l", ",", " "}

IsWordChar(c) == c \in {"a", "b", "c", "f", "j", "l", "A", "B", "C", "J", "0", "1"}

\* String.prototype.toUpperCase on the characters the model uses
toUpperCase(c) ==
  CASE c = "a" -> "A"
    [] c = "b" -> "B"
    [] c = "c" -> "C"
    [] c = "j" -> "J"
    [] c = "f" -> "F"
    [] c = "l" -> "L"
    [] OTHER -> c

\* name.split(',')[0]
RECURSIVE BeforeComma(_)
BeforeComma(s) ==
  IF s = <<>> THEN <<>>
  ELSE IF Head(s) = "," THEN <<>>
  ELSE <<Head(s)>> \o BeforeComma(Tail(s))

\* what follows the first comma
RECURSIVE AfterComma(_)
AfterComma(s) ==
  IF s = <<>> THEN <<>>
  ELSE IF Head(s) = "," THEN Tail(s)
  ELSE AfterComma(Tail(s))

\* replace(/\s+/g, '')
NoSpaces(s) == SelectSeq(s, LAMBDA c : ~IsSpace(c))

\* standardizeNameHelper on `${last}, ${first}`: the text always holds a
\* comma, so the branch that splits a full name on spaces is not taken
standardizeNameHelper(nameStr) ==
  IF nameStr = <<>> THEN <<>>
  ELSE LET name == SelectSeq(LowerStr(Trim(nameStr)), IsNameChar)
       IN NoSpaces(BeforeComma(name)) \o <<",">> \o NoSpaces(BeforeComma(AfterComma(name)))

\* capitalizeName: \b(\w) and -(\w) in upper case, the rest in lower case
capitalizeName(nameStr) ==
  LET lower == LowerStr(nameStr)
  IN [i \in 1..Len(lower) |->
        IF IsWordChar(lower[i]) /\ (i = 1 \/ ~IsWordChar(lower[i - 1]))
        THEN toUpperCase(lower[i])
        ELSE lower[i]]

\* eventName.toString().trim(), on the event labels the model uses
TrimLabel(eventName) == IF eventName = "bible study " THEN "bible study" ELSE eventName

\* eventName.trim().toLowerCase(), on the event labels the model uses
LowerLabel(eventName) ==
  CASE eventName \in {"Bible Study", "bible study", "bible study "} -> "bible study"
    [] eventName \in {"Sunday Service", "sunday service"} -> "sunday service"
    [] eventName = "Pastoral Check-In" -> "pastoral check-in"
    [] OTHER -> eventName

\* /pastoral check-?in/i.test(eventName), on the event labels the model uses
IsPastoralEvent(eventName) == eventName \in {"Pastoral Check-In", "pastoral check-in"}

\* the header text of an Event Attendance column that awaits an event
Placeholder == "Post event name here"

\* `${getMonth() + 1}-${getDate()}`: the day of the year
formattedShortDate(date) == (date \div TicksPerDay) % DaysPerYear

\* `${getMonth() + 1}-${getDate()}-${getFullYear()}`: the calendar day
formattedFullDate(date) == date \div TicksPerDay

\* lastName || firstName on the raw cells
HasNameCell(row) == row.ln # <<>> \/ row.fn # <<>>

\* actualLastDataRow of prepareSheetData, counted in data rows
RECURSIVE LastNamedRow(_)
LastNamedRow(rows) ==
  IF rows = <<>> THEN 0
  ELSE IF HasNameCell(rows[Len(rows)]) THEN Len(rows)
  ELSE LastNamedRow(SubSeq(rows, 1, Len(rows) - 1))

\* nameMap.get(name): the first data row with the name, 0 for none
NameMapGet(rows, name) ==
  LET found == {i \in 1..LastNamedRow(rows) :
                  /\ HasNameCell(rows[i])
                  /\ standardizeNameHelper(LastCommaFirst(rows[i].ln, rows[i].fn)) = name}
  IN IF found = {} THEN 0 ELSE CHOOSE i \in found : \A j \in found : i <= j

\* the columns the header loop of prepareSheetData reaches: it breaks at
\* the first column whose header cells are blank
RECURSIVE ColsBeforeBlank(_, _)
ColsBeforeBlank(isBlank, c) ==
  IF c > Len(isBlank) THEN Len(isBlank)
  ELSE IF isBlank[c] THEN c - 1
  ELSE ColsBeforeBlank(isBlank, c + 1)

\* dateMap.get of Sunday Service: the last column with the short date
ServiceDateMapGet(dates, key) ==
  LET reach == ColsBeforeBlank([c \in 1..Len(dates) |-> dates[c] = NoDate], 1)
      found == {c \in 1..reach : formattedShortDate(dates[c]) = key}
  IN IF found = {} THEN 0 ELSE CHOOSE c \in found : \A d \in found : d <= c

\* dateMap.get of Event Attendance: the last column with the full date and
\* the event name
EventDateMapGet(head, key) ==
  LET reach == ColsBeforeBlank([c \in 1..Len(head) |->
                                  head[c].date = NoDate /\ head[c].name = ""], 1)
      found == {c \in 1..reach :
                  /\ head[c].date # NoDate
                  /\ <<formattedFullDate(head[c].date), LowerLabel(head[c].name)>> = key}
  IN IF found = {} THEN 0 ELSE CHOOSE c \in found : \A d \in found : d <= c

\* lastDataCol of Event Attendance, counted in data columns
EventLastDataCol(head) ==
  ColsBeforeBlank([c \in 1..Len(head) |-> head[c].date = NoDate /\ head[c].name = ""], 1)

\* placeholderCol: the first column that awaits an event, 0 for none
PlaceholderCol(head) ==
  LET found == {c \in 1..Len(head) : head[c].name = Placeholder /\ head[c].date = NoDate}
  IN IF found = {} THEN 0 ELSE CHOOSE c \in found : \A d \in found : c <= d

\* the new person's row at nextBlankRow, with its checkbox row
WithNewPerson(rows, lastName, firstName, att) ==
  LET nextRow == LastNamedRow(rows) + 1
      old == IF nextRow <= Len(rows) THEN rows[nextRow] ELSE EmptyRow
      new == [old EXCEPT !.ln = capitalizeName(lastName),
                         !.fn = capitalizeName(firstName),
                         !.att = att]
  IN [i \in 1..Max(Len(rows), nextRow) |-> IF i = nextRow THEN new ELSE rows[i]]

\* the row is pushed to attendanceRecords
IsAttendanceRecord(row) ==
  /\ row.status # "Logged"
  /\ row.ln # <<>> /\ row.fn # <<>>
  /\ row.event # ""
  /\ row.date >= 0

\* logData after the first loop: the remark on a text that is no date
AfterFilter(log) ==
  [i \in 1..Len(log) |->
     IF log[i].status # "Logged" /\ log[i].ln # <<>> /\ log[i].fn # <<>>
        /\ log[i].date = TextDate
     THEN [log[i] EXCEPT !.remarks = "Skipped: Invalid date format."]
     ELSE log[i]]

Marked(log, i, status, remarks) ==
  [log EXCEPT ![i] = [log[i] EXCEPT !.status = status, !.remarks = remarks]]

Counted(counts, i) == [counts EXCEPT ![i] = counts[i] + 1]

\* CASE 1 of the loop over attendanceRecords
ApplySundayService(st, i, name, logKey) ==
  LET entry == st.log[i]
      row == NameMapGet(st.ss, name)
      col == ServiceDateMapGet(st.ssHead, formattedShortDate(entry.date))
  IN IF ~st.ssExists THEN st
     ELSE IF row # 0 /\ col # 0
     THEN [st EXCEPT !.ss = [st.ss EXCEPT ![row] = [st.ss[row] EXCEPT !.att = @ \cup {col}]],
                     !.log = Marked(st.log, i, "Logged", ""),
                     !.recordsWereLogged = TRUE,
                     !.processedLogs = @ \cup {logKey},
                     !.applied = Counted(st.applied, i)]
     ELSE IF row = 0 /\ col # 0
     THEN [st EXCEPT !.ss = WithNewPerson(st.ss, entry.ln, entry.fn, {col}),
                     !.log = Marked(st.log, i, "Logged", "New person added to directory."),
                     !.recordsWereLogged = TRUE,
                     !.processedLogs = @ \cup {logKey},
                     !.applied = Counted(st.applied, i)]
     ELSE IF row = 0
     THEN [st EXCEPT !.ss = WithNewPerson(st.ss, entry.ln, entry.fn, {}),
                     !.log = Marked(st.log, i, entry.status,
                                    "New person added, but event date not found."),
                     !.recordsWereLogged = TRUE]
     ELSE [st EXCEPT !.log = Marked(st.log, i, "", "Date not found in Sunday Service sheet."),
                     !.recordsWereLogged = TRUE]

\* CASE 2 of the loop
ApplyPastoral(st, i, name, logKey) ==
  LET entry == st.log[i]
      row == NameMapGet(st.pastoral, name)
      nextRow == LastNamedRow(st.pastoral) + 1
      existingRecent == DatesAt(st.dates, row).recent
  IN IF ~st.pastoralExists THEN st
     ELSE IF row # 0
     THEN [st EXCEPT !.dates = WithDates(st.dates, row,
                                 CheckInDates(entry.date,
                                              IF existingRecent # NoDate THEN existingRecent
                                              ELSE DatesAt(st.dates, row).previous)),
                     !.log = Marked(st.log, i, "Logged", ""),
                     !.recordsWereLogged = TRUE,
                     !.processedLogs = @ \cup {logKey},
                     !.applied = Counted(st.applied, i)]
     ELSE [st EXCEPT !.pastoral = WithNewPerson(st.pastoral, entry.ln, entry.fn,
                                                IF nextRow <= Len(st.pastoral)
                                                THEN st.pastoral[nextRow].att ELSE {}),
                     !.dates = WithDates(st.dates, nextRow,
                                 CheckInDates(entry.date, DatesAt(st.dates, nextRow).previous)),
                     !.log = Marked(st.log, i, "Logged", "New person added to directory."),
                     !.recordsWereLogged = TRUE,
                     !.processedLogs = @ \cup {logKey},
                     !.applied = Counted(st.applied, i)]

\* CASE 3 of the loop: the column of the event is found, taken from the
\* first placeholder column or added; then the row is ticked or added
ApplyEvent(st, i, name, logKey) ==
  LET entry == st.log[i]
      eventKey == <<formattedFullDate(entry.date), LowerLabel(entry.event)>>
      known == EventDateMapGet(st.eaHead, eventKey)
      placeholderCol == PlaceholderCol(st.eaHead)
      col == IF known # 0 THEN known
             ELSE IF placeholderCol # 0 THEN placeholderCol
             ELSE EventLastDataCol(st.eaHead) + 1
      headCol == [date |-> entry.date, name |-> TrimLabel(entry.event)]
      head == IF known # 0 THEN st.eaHead
              ELSE [c \in 1..Max(Len(st.eaHead), col) |->
                      IF c = col THEN headCol ELSE st.eaHead[c]]
      row == NameMapGet(st.ea, name)
  IN IF ~st.eaExists THEN st
     ELSE IF row # 0
     THEN [st EXCEPT !.eaHead = head,
                     !.ea = [st.ea EXCEPT ![row] = [st.ea[row] EXCEPT !.att = @ \cup {col}]],
                     !.log = Marked(st.log, i, "Logged", ""),
                     !.recordsWereLogged = TRUE,
                     !.processedLogs = @ \cup {logKey},
                     !.applied = Counted(st.applied, i)]
     ELSE [st EXCEPT !.eaHead = head,
                     !.ea = WithNewPerson(st.ea, entry.ln, entry.fn, {col}),
                     !.log = Marked(st.log, i, "Logged", "New person added to directory."),
                     !.recordsWereLogged = TRUE,
                     !.processedLogs = @ \cup {logKey},
                     !.applied = Counted(st.applied, i)]

\* one turn of the loop over attendanceRecords
ApplyRecord(st, i) ==
  LET entry == st.log[i]
      name == standardizeNameHelper(LastCommaFirst(entry.ln, entry.fn))
      eventName == TrimLabel(entry.event)
      logKey == <<name, eventName, formattedFullDate(entry.date)>>
  IN IF logKey \in st.processedLogs
     THEN [st EXCEPT !.log = Marked(st.log, i, "Logged", "Duplicate log entry processed.")]
     ELSE IF IsSundayService(eventName) THEN ApplySundayService(st, i, name, logKey)
     ELSE IF IsPastoralEvent(eventName) THEN ApplyPastoral(st, i, name, logKey)
     ELSE ApplyEvent(st, i, name, logKey)

\* the loop over attendanceRecords; records holds which rows were pushed
RECURSIVE ApplyRecords(_, _, _)
ApplyRecords(st, records, i) ==
  IF i > Len(st.log) THEN st
  ELSE ApplyRecords(IF i \in records THEN ApplyRecord(st, i) ELSE st, records, i + 1)

\* a run: the sheets, the log and the counts after it
ProcessLog(log, t, eHead, sHead, pDates, counts) ==
  LET records == {i \in 1..Len(log) : IsAttendanceRecord(log[i])}
      start == [log |-> AfterFilter(log),
                ss |-> t["Sunday Service"].rows, ssExists |-> t["Sunday Service"].exists,
                ssHead |-> sHead,
                ea |-> t["Event Attendance"].rows, eaExists |-> t["Event Attendance"].exists,
                eaHead |-> eHead,
                pastoral |-> t["Pastoral Check-In"].rows,
                pastoralExists |-> t["Pastoral Check-In"].exists,
                dates |-> pDates,
                processedLogs |-> {}, recordsWereLogged |-> FALSE, applied |-> counts]
      final == ApplyRecords(start, records, 1)
  IN IF records = {} THEN [start EXCEPT !.log = log]
     ELSE IF final.recordsWereLogged THEN final
     ELSE [final EXCEPT !.log = log]

\* the cap on the runs of the two functions in the model
MaxLogRuns == 3

processAttendanceLogV2 ==
  /\ logRuns.process + logRuns.export < MaxLogRuns
  /\ LET result == ProcessLog(attLog, tabs, eaHead, ssHead, pastoral, applied)
     IN /\ attLog' = result.log
        /\ tabs' = [tabs EXCEPT !["Sunday Service"].rows = result.ss,
                                !["Event Attendance"].rows = result.ea,
                                !["Pastoral Check-In"].rows = result.pastoral]
        /\ eaHead' = result.eaHead
        /\ pastoral' = result.dates
        /\ applied' = result.applied
  /\ logRuns' = [logRuns EXCEPT !.process = @ + 1]
  /\ lastOp' = "processAttendanceLogV2"
  /\ UNCHANGED <<directory, config, stats, ssHead, today, prev, outcome, prevOutcome,
                 runs, bel, summary, guests, passes>>

---------------------------------------------------------------------------
(* exportSheetsAttendanceToLogV2: the TRUE checkboxes of Sunday Service    *)
(* and Event Attendance become rows of the Attendance Log                  *)

\* the keys compared with the case of the cells kept
makeKeyCaseKept_(lastName, firstName, eventName, date) ==
  IF lastName = <<>> \/ firstName = <<>> \/ eventName = "" \/ date = NoDate THEN Null
  ELSE <<Trim(lastName), Trim(firstName), LowerLabel(eventName),
         IF date = TextDate THEN TextDate ELSE toDateString(date)>>

\* makeKey_: '' is Null; a Date gives its calendar day, a text that is no
\* date gives itself
makeKey_(lastName, firstName, eventName, date) ==
  IF lastName = <<>> \/ firstName = <<>> \/ eventName = "" \/ date = NoDate THEN Null
  ELSE <<LowerStr(Trim(lastName)), LowerStr(Trim(firstName)), LowerLabel(eventName),
         IF date = TextDate THEN TextDate ELSE toDateString(date)>>

\* existingKeys: the keys of the rows the log holds
LogKeys(log) ==
  {makeKey_(log[i].ln, log[i].fn, log[i].event, log[i].date) : i \in 1..Len(log)} \ {Null}

\* the calls of maybeAddLogRow_ from the loop over Sunday Service: row by
\* row, within a row column by column
ServiceCalls(tab, dates) ==
  LET n == Len(tab.rows)
      m == Len(dates)
      cells == [k \in 1..(n * m) |-> <<((k - 1) \div m) + 1, ((k - 1) % m) + 1>>]
      live == SelectSeq(cells, LAMBDA rc :
                /\ HasNameCell(tab.rows[rc[1]])
                /\ rc[2] \in tab.rows[rc[1]].att
                /\ dates[rc[2]] # NoDate)
  IN IF ~tab.exists THEN <<>>
     ELSE [k \in 1..Len(live) |->
             [ln |-> tab.rows[live[k][1]].ln, fn |-> tab.rows[live[k][1]].fn,
              event |-> "Sunday Service", date |-> dates[live[k][2]]]]

\* the calls from the loop over Event Attendance: column by column, within
\* a column row by row
EventCalls(tab, head) ==
  LET n == Len(tab.rows)
      m == Len(head)
      cells == [k \in 1..(n * m) |-> <<((k - 1) % n) + 1, ((k - 1) \div n) + 1>>]
      live == SelectSeq(cells, LAMBDA rc :
                /\ head[rc[2]].date # NoDate
                /\ head[rc[2]].name # ""
                /\ TrimLabel(head[rc[2]].name) # Placeholder
                /\ rc[2] \in tab.rows[rc[1]].att
                /\ HasNameCell(tab.rows[rc[1]]))
  IN IF ~tab.exists THEN <<>>
     ELSE [k \in 1..Len(live) |->
             [ln |-> tab.rows[live[k][1]].ln, fn |-> tab.rows[live[k][1]].fn,
              event |-> head[live[k][2]].name, date |-> head[live[k][2]].date]]

\* the values Math.random().toString(16).slice(2, 10) takes in the model
UniqueIds == {"7a60d5eb", "0c1f22aa"}

\* maybeAddLogRow_ over the calls: newRows, with ids[n] the ID drawn for
\* the n-th new row
RECURSIVE NewRows(_, _, _, _, _)
NewRows(calls, existingKeys, newRows, ids, now) ==
  IF calls = <<>> THEN newRows
  ELSE LET call == Head(calls)
           key == makeKey_(call.ln, call.fn, call.event, call.date)
           row == [LogEntry(ids[Len(newRows) + 1], call.ln, call.fn, call.event,
                            call.date, "Logged") EXCEPT !.ts = now]
       IN IF call.date = TextDate \/ key = Null \/ key \in existingKeys
          THEN NewRows(Tail(calls), existingKeys, newRows, ids, now)
          ELSE NewRows(Tail(calls), existingKeys \cup {key}, Append(newRows, row), ids, now)

exportSheetsAttendanceToLogV2 ==
  /\ logRuns.process + logRuns.export < MaxLogRuns
  /\ LET calls == ServiceCalls(tabs["Sunday Service"], ssHead)
                  \o EventCalls(tabs["Event Attendance"], eaHead)
     IN \E ids \in [1..Len(calls) -> UniqueIds] :
          LET newRows == NewRows(calls, LogKeys(attLog), <<>>, ids, today)
          IN /\ attLog' = attLog \o newRows
             /\ applied' = applied \o [i \in 1..Len(newRows) |-> 0]
  /\ logRuns' = [logRuns EXCEPT !.export = @ + 1]
  /\ lastOp' = "exportSheetsAttendanceToLogV2"
  /\ UNCHANGED <<directory, config, tabs, stats, eaHead, ssHead, today, prev, outcome,
                 prevOutcome, runs, bel, summary, guests, passes, pastoral>>

---------------------------------------------------------------------------
(* The stores the reconciliation is run on                                 *)

MaxRows == 2
MaxDir == 2

SeqsUpTo(S, n) == UNION {[1..k -> S] : k \in 0..n}

\* the spellings of the last names; the first name is Fn throughout
LnA == <<"a">>
LnAv == <<"A", ".">>
LnB == <<"b">>
LnC == <<"c">>
Fn == <<"j">>

Person(ln) == Row(BlankId, ln, Fn, {})

\* a tab's rows are the rows up to getLastRow
TabRows(S, n) == {rows \in SeqsUpTo(S, n) : UpToLastRow(rows) = rows}

Tab(rows) == [exists |-> TRUE, rows |-> rows]
NoTab == [exists |-> FALSE, rows |-> <<>>]

StatsRow(ln, status) == StatsRowOf(ln, Fn, "", status)

InitSync ==
  /\ config \in {"ok", "noConfig", "emptyB2", "noDirectory"}
  /\ directory \in IF config = "ok"
                   THEN SeqsUpTo({Person(LnAv), Person(LnB)}, MaxDir)
                   ELSE {<<>>}
  /\ \E ea \in TabRows({EmptyRow, Person(LnC)}, MaxRows),
        ss \in TabRows({Person(LnA), Person(LnB)}, MaxRows),
        pc \in {NoTab, Tab(<<>>)},
        as \in {NoTab, Tab(<<Row(3, LnA, Fn, {})>>),
                Tab(<<Row(5, <<>>, <<>>, {}), Row(1, LnC, Fn, {})>>)} :
       tabs = [name \in TabNames |->
                 CASE name = "Event Attendance" -> Tab(ea)
                   [] name = "Sunday Service" -> Tab(ss)
                   [] name = "Pastoral Check-In" -> pc
                   [] name = "Appsheet Sunserv" -> as
                   [] name = "Appsheet Event" -> Tab(<<>>)
                   [] name = "Appsheet Pastoral" -> Tab(<<Row(2, LnB, Fn, {})>>)]
  /\ stats \in {[exists |-> FALSE, rows |-> <<>>],
                [exists |-> TRUE, rows |-> <<>>],
                [exists |-> TRUE,
                 rows |-> <<StatsRow(LnC, "Core"), StatsRow(LnB, "Archive")>>]}
  /\ eaHead = <<>>
  /\ ssHead = <<>>
  /\ attLog = <<>>
  /\ today = 0
  /\ prev = tabs
  /\ outcome = "none"
  /\ prevOutcome = "none"
  /\ runs = 0
  /\ bel = NoBel
  /\ summary = <<>>
  /\ passes = IdlePasses
  /\ pastoral = <<>>
  /\ applied = <<>>
  /\ logRuns = NoLogRuns
  /\ lastOp = "none"
  /\ guests = <<>>

NextSync == syncDirectoryNamesToAllTabs

SpecSync == InitSync /\ [][NextSync]_vars

---------------------------------------------------------------------------
(* Claims on the reconciliation                                            *)

\* the keys of the data rows of a tab
KeysOf(tab) == ExistingKeys(tab.rows)

\* no two data rows of the tab have the same non-empty key
NoDuplicateKey(tab) ==
  \A i, j \in 1..Len(tab.rows) :
    (i # j /\ RowKey(tab.rows[i]) # Null) => RowKey(tab.rows[i]) # RowKey(tab.rows[j])

\* C1: a second run in succession leaves every tab as the first run left it
C1_Idempotent ==
  (outcome = "done" /\ prevOutcome = "done") => tabs = prev

\* C2: after a completed run every key that was in the Directory or in a
\* feeder tab when the run started is in every target tab that exists
C2_EveryIdentityEverywhere ==
  outcome = "done" =>
    \A name \in TabNames :
      tabs[name].exists =>
        /\ {DirectoryEntries(directory)[i].key : i \in 1..Len(DirectoryEntries(directory))}
             \subseteq KeysOf(tabs[name])
        /\ \A feeder \in ATTENDANCE_TABS_CONFIG :
             prev[feeder].exists => KeysOf(prev[feeder]) \subseteq KeysOf(tabs[name])

\* C3: a run never introduces a duplicate key into a tab that had none
C3_NoNewDuplicate ==
  \A name \in TabNames :
    (runs > 0 /\ NoDuplicateKey(prev[name])) => NoDuplicateKey(tabs[name])

C3_Witness ==
  /\ outcome = "done"
  /\ \E name \in TabNames :
       /\ Len(tabs[name].rows) > Len(prev[name].rows)
       /\ NoDuplicateKey(prev[name])
  /\ Len(directory) = 2
  /\ buildNameKey_(directory[1].ln, directory[1].fn) = buildNameKey_(directory[2].ln, directory[2].fn)

\* C4 as stated: a run that ends in any of the four fatal errors changed no tab
C4_Original ==
  outcome \in {"noConfig", "emptyB2", "noDirectory", "noAttendanceStats"} => tabs = prev

\* C4 as amended: a run that ends in one of the three errors raised before the
\* Directory is read changed no tab
C4_Amended ==
  outcome \in {"noConfig", "emptyB2", "noDirectory"} => tabs = prev

C4_Witness ==
  /\ outcome \in {"noConfig", "emptyB2", "noDirectory"}
  /\ runs > 0
  /\ \E name \in TabNames : tabs[name].rows # <<>>

---------------------------------------------------------------------------
(* The sources the identity registry and the aggregation are run on        *)

MaxLog == 1

LogRow(ln, event, date) == [ln |-> ln, fn |-> Fn, event |-> event, date |-> date]

HeadCol(date, name) == [date |-> date, name |-> name]

\* the year of "now" in the runs of the model
ThisYear == 1

Mar31 == DateAt(ThisYear, 2, 31, 0)
Mar31Noon == DateAt(ThisYear, 2, 31, 1)
Apr1 == DateAt(ThisYear, 3, 1, 0)
Jul1 == DateAt(ThisYear, 6, 1, 0)
Jul1Noon == DateAt(ThisYear, 6, 1, 1)
LastDec31Noon == DateAt(ThisYear - 1, 11, 31, 1)

NoStats == [exists |-> FALSE, rows |-> <<>>]

InitBel ==
  /\ config = "ok"
  /\ directory \in SeqsUpTo({Row(3, LnA, Fn, {}), Row(7, LnB, Fn, {})}, MaxDir)
  /\ \E ea \in TabRows({Row(BlankId, LnA, Fn, {}), Row(3, LnC, Fn, {1}),
                        Row(0, LnC, Fn, {})}, MaxRows),
        ss \in TabRows({Row(BlankId, LnB, Fn, {1}), Row(7, LnC, Fn, {})}, MaxRows) :
       tabs = [name \in TabNames |->
                 CASE name = "Event Attendance" -> Tab(ea)
                   [] name = "Sunday Service" -> Tab(ss)
                   [] OTHER -> Tab(<<>>)]
  /\ stats = NoStats
  /\ eaHead = <<HeadCol(Apr1, "Bible Study")>>
  /\ ssHead = <<Apr1>>
  /\ attLog \in SeqsUpTo({LogRow(<<"b", "b">>, "Pastoral Check-In", Jul1)}, MaxLog)
  /\ today = Jul1Noon
  /\ prev = tabs
  /\ outcome = "none"
  /\ prevOutcome = "none"
  /\ runs = 0
  /\ bel = NoBel
  /\ summary = <<>>
  /\ passes = IdlePasses
  /\ pastoral = <<>>
  /\ applied = <<>>
  /\ logRuns = NoLogRuns
  /\ lastOp = "none"
  /\ guests = <<>>

NextBel == matchOrAssignBelCodes

SpecBel == InitBel /\ [][NextBel]_vars

InitStats ==
  /\ config = "ok"
  /\ directory \in {<<>>, <<Row(3, LnA, Fn, {}), Row(3, LnB, Fn, {})>>}
  /\ \E ea \in TabRows({Row(BlankId, LnA, Fn, {1}), Row(BlankId, LnB, Fn, {1})}, MaxRows),
        ss \in TabRows({Row(BlankId, LnA, Fn, {1, 2}), Row(BlankId, LnB, Fn, {2})}, MaxRows) :
       tabs = [name \in TabNames |->
                 CASE name = "Event Attendance" -> Tab(ea)
                   [] name = "Sunday Service" -> Tab(ss)
                   [] OTHER -> Tab(<<>>)]
  /\ stats = NoStats
  /\ eaHead \in {<<HeadCol(Mar31, "Bible Study")>>,
                 <<HeadCol(Mar31, "SUNDAY SERVICE 9am")>>,
                 <<HeadCol(Jul1Noon, "Bible Study")>>}
  /\ ssHead \in {<<d1, d2>> : d1, d2 \in {Mar31, Mar31Noon, LastDec31Noon}}
  /\ attLog \in SeqsUpTo({LogRow(LnA, "pastoral check-in ", Jul1Noon),
                          LogRow(LnA, "Pastoral Check-In", Jul1)}, MaxLog)
  /\ today = Jul1Noon
  /\ prev = tabs
  /\ outcome = "none"
  /\ prevOutcome = "none"
  /\ runs = 0
  /\ bel = NoBel
  /\ summary = <<>>
  /\ passes = IdlePasses
  /\ pastoral = <<>>
  /\ applied = <<>>
  /\ logRuns = NoLogRuns
  /\ lastOp = "none"
  /\ guests = <<>>

NextStats == calculateAttendanceStats

SpecStats == InitStats /\ [][NextStats]_vars

---------------------------------------------------------------------------
(* The sources and the Attendance Stats rows the activity levels are       *)
(* computed on                                                             *)

Jun30 == DateAt(ThisYear, 5, 30, 0)
MayLastYear == DateAt(ThisYear - 1, 4, 1, 0)

\* the Sunday Service header: twelve service dates, all the same day
ServiceDates(date) == [c \in 1..12 |-> date]

InitTier ==
  /\ config = "ok"
  /\ directory \in {<<>>, <<Row(3, LnA, Fn, {})>>}
  /\ \E ea \in TabRows({Row(BlankId, LnA, Fn, {1})}, MaxRows),
        ss \in TabRows({Row(BlankId, LnA, Fn, 1..11), Row(BlankId, LnB, Fn, 1..3),
                        Row(BlankId, LnC, <<>>, 1..12)}, MaxRows) :
       tabs = [name \in TabNames |->
                 CASE name = "Event Attendance" -> Tab(ea)
                   [] name = "Sunday Service" -> Tab(ss)
                   [] OTHER -> Tab(<<>>)]
  /\ stats \in {Tab(rows) : rows \in SeqsUpTo({StatsRowOf(LnA, Fn, "", ""),
                                               StatsRowOf(LnB, Fn, "Guest", "Core"),
                                               StatsRowOf(LnC, <<>>, "Guest", "")}, MaxRows)}
  /\ eaHead = <<HeadCol(Jun30, "Bible Study")>>
  /\ ssHead \in {ServiceDates(d) :
                   d \in {Jun30, MayLastYear,
                          Cutoff90(Jul1Noon), Cutoff90(Jul1Noon) - 1,
                          Cutoff12mo(Jul1Noon), Cutoff12mo(Jul1Noon) - 1}}
  /\ attLog = <<>>
  /\ today = Jul1Noon
  /\ prev = tabs
  /\ outcome = "none"
  /\ prevOutcome = "none"
  /\ runs = 0
  /\ bel = NoBel
  /\ summary = <<>>
  /\ passes = IdlePasses
  /\ pastoral = <<>>
  /\ applied = <<>>
  /\ logRuns = NoLogRuns
  /\ lastOp = "none"
  /\ guests = <<>>

NextTier ==
  \/ updateActivityLevels
  \/ performFinalSort
  \/ updateAttendanceStatsSheet

SpecTier == InitTier /\ [][NextTier]_vars

---------------------------------------------------------------------------
(* The rosters and the Directory processMemberStatus is run on             *)

InitMember ==
  /\ config \in {"ok", "noConfig", "emptyB2", "noDirectory"}
  /\ directory \in IF config = "ok"
                   THEN SeqsUpTo({Person(LnA), Row(7, <<"B", ".">>, <<"J", " ", "c">>, {})},
                                 MaxDir)
                   ELSE {<<>>}
  /\ \E ea \in TabRows({EmptyRow, Row(BlankId, <<" ", "A">>, <<"J", " ">>, {})}, MaxRows),
        ss \in TabRows({Person(LnA), Person(LnB), Person(LnC),
                        Row(BlankId, LnA, <<" ", "j">>, {})}, MaxRows) :
       tabs = [name \in TabNames |->
                 CASE name = "Event Attendance" -> Tab(ea)
                   [] name = "Sunday Service" -> Tab(ss)
                   [] OTHER -> Tab(<<>>)]
  /\ stats = NoStats
  /\ eaHead = <<>>
  /\ ssHead = <<>>
  /\ attLog = <<>>
  /\ today = Jul1Noon
  /\ prev = tabs
  /\ outcome = "none"
  /\ prevOutcome = "none"
  /\ runs = 0
  /\ bel = NoBel
  /\ summary = <<>>
  /\ passes = IdlePasses
  /\ pastoral = <<>>
  /\ applied = <<>>
  /\ logRuns = NoLogRuns
  /\ lastOp = "none"
  /\ guests = <<>>

NextMember == processMemberStatus

SpecMember == InitMember /\ [][NextMember]_vars

---------------------------------------------------------------------------
(* The rosters, the log and the Directory updateGuestData is run on        *)

\* a roster row with its Type cell filled in
Typed(row, type) == [row EXCEPT !.type = type]

InitGuest ==
  /\ config \in {"ok", "noConfig", "emptyB2", "noDirectory"}
  /\ directory \in IF config = "ok"
                   THEN SeqsUpTo({DirRow(3, LnA, Fn, Apr1), DirRow(7, LnB, Fn, NoDate)}, MaxDir)
                   ELSE {<<>>}
  /\ \E ea \in TabRows({Typed(Row(BlankId, LnC, <<>>, {1}), "Guest")}, MaxRows),
        ss \in TabRows({Typed(Row(BlankId, LnA, Fn, {1}), "Member"),
                        Typed(Row(BlankId, LnA, Fn, {1}), "Guest"),
                        Typed(Row(BlankId, LnB, Fn, {1}), "Guest"),
                        Typed(Row(BlankId, LnC, Fn, {}), "Guest")}, MaxRows) :
       tabs = [name \in TabNames |->
                 CASE name = "Event Attendance" -> Tab(ea)
                   [] name = "Sunday Service" -> Tab(ss)
                   [] OTHER -> Tab(<<>>)]
  /\ stats = NoStats
  /\ eaHead = <<HeadCol(Apr1, "Bible Study")>>
  /\ ssHead = <<Apr1>>
  /\ attLog \in SeqsUpTo({LogRow(LnA, "Pastoral check -In", Jul1),
                          LogRow(LnB, "pastoral check -in", Jul1),
                          LogRow(LnC, "Pastoral Check-In", Jul1)}, MaxLog)
  /\ today = Jul1Noon
  /\ prev = tabs
  /\ outcome = "none"
  /\ prevOutcome = "none"
  /\ runs = 0
  /\ bel = NoBel
  /\ summary = <<>>
  /\ passes = IdlePasses
  /\ pastoral = <<>>
  /\ applied = <<>>
  /\ logRuns = NoLogRuns
  /\ lastOp = "none"
  /\ guests \in {<<>>, <<[ln |-> LnC, fn |-> Fn, regDate |-> NoDate]>>}

NextGuest == updateGuestData

SpecGuest == InitGuest /\ [][NextGuest]_vars

---------------------------------------------------------------------------
(* The roster tabs and Attendance Stats rows the two sorts are run on      *)

LnUpperA == <<"A">>

InitSort ==
  /\ config = "ok"
  /\ directory = <<>>
  /\ \E ss \in TabRows({Person(LnA), Row(BlankId, LnUpperA, Fn, {1}), Person(LnB),
                        Person(LnC)}, MaxRows),
        as \in {NoTab, Tab(<<Row(2, LnB, Fn, {}), Row(1, LnA, Fn, {})>>)} :
       tabs = [name \in TabNames |->
                 CASE name = "Sunday Service" -> Tab(ss)
                   [] name = "Appsheet Sunserv" -> as
                   [] OTHER -> Tab(<<>>)]
  /\ stats \in {NoStats} \cup
               {Tab(rows) : rows \in SeqsUpTo({StatsRowOf(LnB, Fn, "", "Core"),
                                               StatsRowOf(LnA, Fn, "Guest", "Archive"),
                                               StatsRowOf(LnUpperA, Fn, "Guest", "Archive"),
                                               StatsRowOf(LnC, Fn, "", "")}, MaxRows)}
  /\ eaHead = <<>>
  /\ ssHead = <<>>
  /\ attLog = <<>>
  /\ today = Jul1Noon
  /\ prev = tabs
  /\ outcome = "none"
  /\ prevOutcome = "none"
  /\ runs = 0
  /\ bel = NoBel
  /\ summary = <<>>
  /\ passes = IdlePasses
  /\ pastoral = <<>>
  /\ applied = <<>>
  /\ logRuns = NoLogRuns
  /\ lastOp = "none"
  /\ guests = <<>>

NextSort ==
  \/ sortSyncedTabsByAttendanceStatus
  \/ performFinalSort

SpecSort == InitSort /\ [][NextSort]_vars

---------------------------------------------------------------------------
(* Stores with several spellings of a name                                 *)

LnAB == <<"a", "b">>

InitKey ==
  /\ config = "ok"
  /\ directory \in SeqsUpTo({Row(BlankId, LnAv, <<"J">>, {}), Person(LnAB)}, MaxDir)
  /\ \E ea \in TabRows({Row(BlankId, <<" ", "a", " ">>, <<"j", " ">>, {}),
                        Row(BlankId, <<"A", "b">>, <<"J", ".">>, {})}, MaxRows),
        ss \in TabRows({Person(LnA), Row(BlankId, <<"a", " ", "b">>, Fn, {})}, MaxRows),
        pc \in {NoTab, Tab(<<Row(BlankId, <<"A">>, <<" ", "j">>, {})>>)} :
       tabs = [name \in TabNames |->
                 CASE name = "Event Attendance" -> Tab(ea)
                   [] name = "Sunday Service" -> Tab(ss)
                   [] name = "Pastoral Check-In" -> pc
                   [] OTHER -> Tab(<<>>)]
  /\ stats \in {Tab(<<>>), Tab(<<StatsRow(LnAB, "Core")>>)}
  /\ eaHead = <<>>
  /\ ssHead = <<>>
  /\ attLog = <<>>
  /\ today = Jul1Noon
  /\ prev = tabs
  /\ outcome = "none"
  /\ prevOutcome = "none"
  /\ runs = 0
  /\ bel = NoBel
  /\ summary = <<>>
  /\ passes = IdlePasses
  /\ pastoral = <<>>
  /\ applied = <<>>
  /\ logRuns = NoLogRuns
  /\ lastOp = "none"
  /\ guests = <<>>

NextKey == syncDirectoryNamesToAllTabs

SpecKey == InitKey /\ [][NextKey]_vars

---------------------------------------------------------------------------
(* Stores for passes in flight: Sunday Service is the one source of the    *)
(* union besides the Directory and has no gap, so the loops on the other   *)
(* tabs leave the union as it is                                           *)

InitRace ==
  /\ config = "ok"
  /\ directory \in SeqsUpTo({Person(LnA), Person(LnB)}, MaxDir)
  /\ \E ss \in {<<Person(LnC)>>, <<Person(LnA), Person(LnB), Person(LnC)>>},
        ae \in {<<>>, <<Row(5, LnC, Fn, {})>>,
                <<Row(2, <<>>, <<>>, {}), Row(5, LnC, Fn, {})>>} :
       tabs = [name \in TabNames |->
                 CASE name = "Sunday Service" -> Tab(ss)
                   [] name = RaceTarget -> Tab(ae)
                   [] OTHER -> NoTab]
  /\ stats = NoTab
  /\ eaHead = <<>>
  /\ ssHead = <<>>
  /\ attLog = <<>>
  /\ today = 0
  /\ prev = tabs
  /\ outcome = "none"
  /\ prevOutcome = "none"
  /\ runs = 0
  /\ bel = NoBel
  /\ summary = <<>>
  /\ passes = IdlePasses
  /\ pastoral = <<>>
  /\ applied = <<>>
  /\ logRuns = NoLogRuns
  /\ lastOp = "none"
  /\ guests = <<>>

NextRace == \E p \in Passes : readTarget(p) \/ locateRow(p) \/ writeRows(p)

SpecRace == InitRace /\ [][NextRace]_vars

---------------------------------------------------------------------------
(* Stores with rows that show an ID and lack a name                        *)

InitReserve ==
  /\ config = "ok"
  /\ directory \in SeqsUpTo({Row(7, LnB, Fn, {}), Row(8, LnA, <<>>, {})}, MaxDir)
  /\ \E ea \in TabRows({Row(BlankId, LnA, Fn, {1}), Row(9, <<>>, <<>>, {}), EmptyRow}, MaxRows),
        ss \in TabRows({Row(BlankId, LnC, Fn, {1}), Row(3, <<>>, Fn, {})}, MaxRows) :
       tabs = [name \in TabNames |->
                 CASE name = "Event Attendance" -> Tab(ea)
                   [] name = "Sunday Service" -> Tab(ss)
                   [] OTHER -> Tab(<<>>)]
  /\ stats = NoStats
  /\ eaHead = <<HeadCol(Apr1, "Bible Study")>>
  /\ ssHead = <<Apr1>>
  /\ attLog = <<>>
  /\ today = Jul1Noon
  /\ prev = tabs
  /\ outcome = "none"
  /\ prevOutcome = "none"
  /\ runs = 0
  /\ bel = NoBel
  /\ summary = <<>>
  /\ passes = IdlePasses
  /\ pastoral = <<>>
  /\ applied = <<>>
  /\ logRuns = NoLogRuns
  /\ lastOp = "none"
  /\ guests = <<>>

NextReserve == matchOrAssignBelCodes

SpecReserve == InitReserve /\ [][NextReserve]_vars

---------------------------------------------------------------------------
(* Stores that processMemberStatus and calculateAttendanceStats both read: *)
(* a Directory first name may hold a second token                          *)

InitFlag ==
  /\ config = "ok"
  /\ directory \in SeqsUpTo({Person(LnA), Row(7, LnB, <<"j", " ", "c">>, {})}, MaxDir)
  /\ \E ea \in TabRows({Row(BlankId, LnA, Fn, {1}), Row(BlankId, LnB, Fn, {1})}, MaxRows),
        ss \in TabRows({Row(BlankId, LnB, Fn, {1}), Row(BlankId, LnC, Fn, {1})}, MaxRows) :
       tabs = [name \in TabNames |->
                 CASE name = "Event Attendance" -> Tab(ea)
                   [] name = "Sunday Service" -> Tab(ss)
                   [] OTHER -> Tab(<<>>)]
  /\ stats = NoStats
  /\ eaHead = <<HeadCol(Apr1, "Bible Study")>>
  /\ ssHead = <<Apr1>>
  /\ attLog = <<>>
  /\ today = Jul1Noon
  /\ prev = tabs
  /\ outcome = "none"
  /\ prevOutcome = "none"
  /\ runs = 0
  /\ bel = NoBel
  /\ summary = <<>>
  /\ passes = IdlePasses
  /\ pastoral = <<>>
  /\ applied = <<>>
  /\ logRuns = NoLogRuns
  /\ lastOp = "none"
  /\ guests = <<>>

NextFlag == processMemberStatus \/ calculateAttendanceStats

SpecFlag == InitFlag /\ [][NextFlag]_vars

---------------------------------------------------------------------------
(* Attendance Logs with several rows of one person on one day              *)

MaxLogRows == 2

InitLog ==
  /\ config = "ok"
  /\ directory \in {<<>>, <<Row(3, LnA, Fn, {})>>}
  /\ \E ea \in {<<>>, <<Row(BlankId, LnA, Fn, {1})>>},
        ss \in {<<>>, <<Row(BlankId, LnB, Fn, {1})>>} :
       tabs = [name \in TabNames |->
                 CASE name = "Event Attendance" -> Tab(ea)
                   [] name = "Sunday Service" -> Tab(ss)
                   [] OTHER -> Tab(<<>>)]
  /\ stats = NoStats
  /\ eaHead = <<HeadCol(Jul1, "Bible Study")>>
  /\ ssHead = <<Jul1>>
  /\ attLog \in SeqsUpTo({LogRow(LnA, "Pastoral Check-In", Jul1),
                          LogRow(LnA, "pastoral check-in ", Jul1Noon),
                          LogRow(LnA, "Bible Study", Jul1),
                          LogRow(LnB, "Pastoral Check-In", Apr1)}, MaxLogRows)
  /\ today = Jul1Noon
  /\ prev = tabs
  /\ outcome = "none"
  /\ prevOutcome = "none"
  /\ runs = 0
  /\ bel = NoBel
  /\ summary = <<>>
  /\ passes = IdlePasses
  /\ pastoral = <<>>
  /\ applied = <<>>
  /\ logRuns = NoLogRuns
  /\ lastOp = "none"
  /\ guests = <<>>

NextLog == matchOrAssignBelCodes

SpecLog == InitLog /\ [][NextLog]_vars

---------------------------------------------------------------------------
(* The Attendance Log and the destination tabs the log is applied to and   *)
(* exported from                                                           *)

MaxEntries == 2

\* a row of the log as a form submission leaves it: no ID of the export
Submitted(ln, fn, event, date, status) == LogEntry("", ln, fn, event, date, status)

InitRoundTrip ==
  /\ config = "ok"
  /\ directory = <<>>
  /\ \E ss \in {<<>>, <<Row(BlankId, <<"A">>, Fn, {1})>>},
        ea \in {<<>>, <<Row(BlankId, LnA, Fn, {1})>>},
        pa \in {NoTab, Tab(<<Person(LnA)>>)} :
       /\ tabs = [name \in TabNames |->
                    CASE name = "Event Attendance" -> Tab(ea)
                      [] name = "Sunday Service" -> Tab(ss)
                      [] name = "Pastoral Check-In" -> pa
                      [] OTHER -> Tab(<<>>)]
       /\ pastoral = IF pa.exists THEN <<CheckInDates(Apr1, NoDate)>> ELSE <<>>
  /\ stats = NoStats
  /\ eaHead = IF tabs["Event Attendance"].rows = <<>>
              THEN <<HeadCol(Jul1, "Bible Study")>>
              ELSE <<HeadCol(Jul1, "Bible Study"), HeadCol(NoDate, Placeholder)>>
  /\ ssHead = <<Jul1>>
  /\ attLog \in SeqsUpTo({Submitted(LnA, Fn, "Sunday Service", Jul1Noon, ""),
                          Submitted(LnB, Fn, "Bible Study", Apr1, ""),
                          Submitted(LnB, Fn, "Sunday Service", Apr1, ""),
                          Submitted(LnA, Fn, "bible study ", Jul1, ""),
                          Submitted(LnB, Fn, "Pastoral Check-In", Jul1, ""),
                          Submitted(LnA, Fn, "Pastoral Check-In", Jul1Noon, "Pending"),
                          Submitted(LnA, Fn, "Bible Study", Apr1, "Logged"),
                          Submitted(LnA, <<>>, "Bible Study", Jul1, ""),
                          Submitted(LnB, Fn, "Bible Study", TextDate, "")}, MaxEntries)
  /\ today = Jul1Noon
  /\ prev = tabs
  /\ outcome = "none"
  /\ prevOutcome = "none"
  /\ runs = 0
  /\ bel = NoBel
  /\ summary = <<>>
  /\ passes = IdlePasses
  /\ applied = [i \in 1..Len(attLog) |-> 0]
  /\ logRuns = NoLogRuns
  /\ lastOp = "none"
  /\ guests = <<>>

NextRoundTrip == processAttendanceLogV2 \/ exportSheetsAttendanceToLogV2

SpecRoundTrip == InitRoundTrip /\ [][NextRoundTrip]_vars

---------------------------------------------------------------------------
(* Claims on the identity registry                                         *)

\* allUsedCodes at the call of generateBEL that returned generated[i]
UsedBefore(i) == bel.used0 \cup {bel.generated[j] : j \in 1..(i - 1)}

\* C5: distinct identity keys carry distinct IDs, and the generator never
\* returns a value that is already in the used-ID set
C5_UniqueIds ==
  /\ \A k1, k2 \in DOMAIN bel.belMap :
       k1 # k2 => bel.belMap[k1] # bel.belMap[k2]
  /\ \A i \in 1..Len(bel.generated) : bel.generated[i] \notin UsedBefore(i)

\* the belMap of a run on the roster tabs t
BelMapOf(t) ==
  MatchOrAssign(directory, t["Event Attendance"], eaHead,
                t["Sunday Service"], ssHead, attLog).belMap

\* C6: an identity that has an ID before and after a reconciliation pass has
\* the same ID in a run before the pass and in a run after it
C6_DurableId ==
  outcome = "done" =>
    \A key \in (DOMAIN BelMapOf(prev)) \cap (DOMAIN BelMapOf(tabs)) :
      BelMapOf(prev)[key] = BelMapOf(tabs)[key]

\* C7: each call of the generator returns the smallest integer that is at
\* least max(used) + 1 (1 for an empty set) and is not used, adds it to the
\* set, and returns more than every earlier call
C7_GeneratorNext ==
  \A i \in 1..Len(bel.generated) :
    LET floor == IF UsedBefore(i) = {} THEN 1 ELSE SetMax(UsedBefore(i)) + 1
    IN /\ bel.generated[i] >= floor
       /\ bel.generated[i] \notin UsedBefore(i)
       /\ \A n \in floor..(bel.generated[i] - 1) : n \in UsedBefore(i)
       /\ bel.generated[i] \in bel.used
       /\ \A j \in 1..(i - 1) : bel.generated[j] < bel.generated[i]

C7_Witness ==
  /\ Len(bel.generated) >= 2
  /\ bel.used0 # {}
  /\ \E n \in 1..SetMax(bel.used0) : n \notin bel.used0

\* C8 as stated: with {3, 7} in use, two calls return 1 and then 2
C8_Original ==
  (bel.used0 = {3, 7} /\ Len(bel.generated) >= 2) =>
    (bel.generated[1] = 1 /\ bel.generated[2] = 2)

\* C8 as amended: with {3, 7} in use, two calls return 8 and then 9, the
\* values above the current maximum
C8_Amended ==
  (bel.used0 = {3, 7} /\ Len(bel.generated) >= 2) =>
    (bel.generated[1] = 8 /\ bel.generated[2] = 9)

C8_Witness ==
  /\ bel.used0 = {3, 7}
  /\ Len(bel.generated) >= 2
  /\ bel.generated[2] = 9

---------------------------------------------------------------------------
(* Claims on the aggregation                                               *)

\* the calendar quarter, 1..4, of a date
CalendarQuarter(date) ==
  LET dayOfYear == toDateString(date) % DaysPerYear
  IN CHOOSE q \in 1..4 :
       dayOfYear >= DaysBeforeMonth(3 * (q - 1)) /\ dayOfYear < DaysBeforeMonth(3 * q)

\* C9: every record of the current year is counted in exactly one quarter
C9_QuarterPartition ==
  \A i \in 1..Len(bel.rawData) :
    getFullYear(bel.rawData[i].date) = getFullYear(today) =>
      Cardinality({q \in 1..4 : InQuarter(bel.rawData[i].date, getFullYear(today), q)}) = 1

\* the records of an identity key
RecordsOfKey(key) ==
  SelectSeq(bel.rawData, LAMBDA r : normalizeName(LastCommaFirst(r.lastName, r.firstName)) = key)

\* the distinct (event label, calendar date) pairs of an identity in a
\* quarter of the current year, every Sunday service under one label
EventDays(key, q) ==
  {<<IF IsSundayService(RecordsOfKey(key)[i].eventName) THEN "Sunday Service"
     ELSE RecordsOfKey(key)[i].eventName,
     toDateString(RecordsOfKey(key)[i].date)>> :
     i \in {j \in 1..Len(RecordsOfKey(key)) :
              /\ getFullYear(RecordsOfKey(key)[j].date) = getFullYear(today)
              /\ CalendarQuarter(RecordsOfKey(key)[j].date) = q}}

\* C10: each quarter count of an identity is the number of its distinct
\* (event label, calendar date) pairs in the quarter
C10_QuarterCounts ==
  \A key \in DOMAIN bel.belMap :
    \A g \in 1..Len(summary) :
      (summary[g].bel = bel.belMap[key] /\ RecordsOfKey(key) # <<>>) =>
        \A q \in 1..4 : summary[g].q[q] = Cardinality(EventDays(key, q))

\* the record is dated in the year of the run
InCurrentYear(r) == getFullYear(r.date) = getFullYear(today)

\* C11: an identity with a record in the current year has exactly one row,
\* an identity whose records are all outside the current year has none, and
\* every row has total = q1 + q2 + q3 + q4 >= 1
C11_RowsOfCurrentYear ==
  /\ \A key \in DOMAIN bel.belMap :
       LET rowsOfKey == {g \in 1..Len(summary) : summary[g].bel = bel.belMap[key]}
           inYear == \E i \in 1..Len(RecordsOfKey(key)) : InCurrentYear(RecordsOfKey(key)[i])
       IN summary # <<>> =>
            IF inYear THEN Cardinality(rowsOfKey) = 1
            ELSE (\A k2 \in DOMAIN bel.belMap : bel.belMap[k2] = bel.belMap[key] => k2 = key)
                   => rowsOfKey = {}
  /\ \A g \in 1..Len(summary) :
       /\ summary[g].total = summary[g].q[1] + summary[g].q[2] + summary[g].q[3] + summary[g].q[4]
       /\ summary[g].total >= 1

---------------------------------------------------------------------------
(* Claims on the activity levels                                           *)

\* the key of an Attendance Stats row
StatsKey(row) == normalizeName(LastCommaFirst(row.ln, row.fn))

\* the tier the rules give an identity: Archive when its latest record is
\* earlier than today minus 12 months, else by the number of its records
\* dated on or after today minus 90 days
RuleTier(key) ==
  LET records == RecordsOfKey(key)
      lastBefore == \A i \in 1..Len(records) : records[i].date < Cutoff12mo(today)
      count90 == Cardinality({i \in 1..Len(records) : records[i].date >= Cutoff90(today)})
  IN IF records # <<>> /\ lastBefore THEN "Archive"
     ELSE IF count90 >= 12 THEN "Core"
     ELSE IF count90 >= 3 THEN "Active"
     ELSE "Inactive"

\* C12: after updateActivityLevels every Attendance Stats row holds the tier
\* of the first matching rule: Archive, else Core, else Active, else Inactive
C12_TierByFirstRule ==
  lastOp = "updateActivityLevels" =>
    \A i \in 1..Len(stats.rows) : stats.rows[i].status = RuleTier(StatsKey(stats.rows[i]))

---------------------------------------------------------------------------
(* Claims on the Member / Guest labels                                     *)

\* the first whitespace-delimited token of a text
FirstToken(text) == SplitFirst(TrimLeft(text))

\* the Strict-key: lower-cased, letters a-z only, the last name and the first
\* token of the first name
StrictKey(lastName, firstName) ==
  SelectSeq(LowerStr(lastName), IsAZ) \o <<"_">>
    \o SelectSeq(LowerStr(FirstToken(firstName)), IsAZ)

\* some Directory row has the Strict-key of the row; the key of two empty
\* parts is no key
InDirectoryByStrictKey(row) ==
  /\ StrictKey(row.ln, row.fn) # <<"_">>
  /\ \E i \in 1..Len(directory) :
       StrictKey(directory[i].ln, directory[i].fn) = StrictKey(row.ln, row.fn)

\* C13: after processMemberStatus a data row of Sunday Service or Event
\* Attendance is labelled Member exactly when a Directory row has its
\* Strict-key, and Guest otherwise
C13_MemberByStrictKey ==
  (lastOp = "processMemberStatus" /\ config = "ok") =>
    \A name \in {"Sunday Service", "Event Attendance"} :
      \A i \in 1..Len(tabs[name].rows) :
        tabs[name].rows[i].type =
          IF InDirectoryByStrictKey(tabs[name].rows[i]) THEN "Member" ELSE "Guest"

---------------------------------------------------------------------------
(* Claims on the Guests tab                                                *)

\* a Directory row names the person: both names, compared trimmed and
\* lower-cased
PresentInDirectory(ln, fn) ==
  \E i \in 1..Len(directory) :
    /\ Trim(directory[i].ln) # <<>>
    /\ Trim(directory[i].fn) # <<>>
    /\ DirKey(Trim(directory[i].ln), Trim(directory[i].fn)) = DirKey(Trim(ln), Trim(fn))

\* C14: after updateGuestData no row of the Guests tab with both names names
\* a person of the Directory, with or without a registration date
C14_NoDirectoryPersonInGuests ==
  (lastOp = "updateGuestData" /\ config = "ok") =>
    \A i \in 1..Len(guests) :
      (guests[i].ln # <<>> /\ guests[i].fn # <<>>) =>
        ~PresentInDirectory(guests[i].ln, guests[i].fn)

---------------------------------------------------------------------------
(* Claims on the sorts                                                     *)

\* the rank of a tier: Core < Active < Inactive < Archive < unknown
TierRank(status) ==
  CASE status = "Core" -> 0
    [] status = "Active" -> 1
    [] status = "Inactive" -> 2
    [] status = "Archive" -> 3
    [] OTHER -> 4

\* the tier rank of the identity of a roster row: that of its last row in
\* Attendance Stats, unknown without one
RosterTierRank(row) ==
  IF RowKey(row) # Null /\ \E i \in 1..Len(stats.rows) : RowKey(stats.rows[i]) = RowKey(row)
  THEN TierRank(stats.rows[CHOOSE i \in 1..Len(stats.rows) :
                             /\ RowKey(stats.rows[i]) = RowKey(row)
                             /\ \A j \in (i + 1)..Len(stats.rows) :
                                  RowKey(stats.rows[j]) # RowKey(row)].status)
  ELSE 4

\* a name is at or before another, compared case-insensitively
NameLeq(a, b) == LowerStr(a) = LowerStr(b) \/ StringLess(LowerStr(a), LowerStr(b))

\* (rank, last name, first name) of a is at or before that of b
KeysLeq(rankA, a, rankB, b) ==
  \/ rankA < rankB
  \/ /\ rankA = rankB
     /\ \/ LowerStr(a.ln) # LowerStr(b.ln) /\ NameLeq(a.ln, b.ln)
        \/ LowerStr(a.ln) = LowerStr(b.ln) /\ NameLeq(a.fn, b.fn)

\* Guest first: 0 for a guest row, 1 for the others
GuestRank(row) == IF row.guest = "Guest" THEN 0 ELSE 1

\* C15: after a sort every two adjacent data rows are in non-decreasing
\* order of (guest flag, tier rank, last name, first name); the roster tabs
\* have no guest flag, performFinalSort sorts Attendance Stats by it first
C15_AdjacentRowsInOrder ==
  /\ (outcome = "done" /\ stats.rows # <<>>) =>
       \A name \in TabNames :
         \A i \in 1..(Len(tabs[name].rows) - 1) :
           KeysLeq(RosterTierRank(tabs[name].rows[i]), tabs[name].rows[i],
                   RosterTierRank(tabs[name].rows[i + 1]), tabs[name].rows[i + 1])
  /\ (\/ lastOp = "performFinalSort"
      \/ lastOp = "updateAttendanceStatsSheet" /\ summary # <<>>) =>
       \A i \in 1..(Len(stats.rows) - 1) :
         \/ GuestRank(stats.rows[i]) < GuestRank(stats.rows[i + 1])
         \/ /\ GuestRank(stats.rows[i]) = GuestRank(stats.rows[i + 1])
            /\ KeysLeq(TierRank(stats.rows[i].status), stats.rows[i],
                       TierRank(stats.rows[i + 1].status), stats.rows[i + 1])

\* the sort keys of a roster row, as the comparator reads them
RosterSortKeys(row, statusMap) ==
  LET key == buildNameKey_(Trim(row.ln), Trim(row.fn))
  IN <<IF key # Null /\ key \in DOMAIN statusMap THEN statusMap[key] ELSE 4,
       LowerStr(Trim(row.ln)), LowerStr(Trim(row.fn))>>

\* the sort keys of an Attendance Stats row
StatsSortKeys(row) ==
  <<row.guest = "Guest", FinalLevel(row.status), LowerStr(row.ln), LowerStr(row.fn)>>

\* the rows of one tab that are equal to row on every sort key keep their
\* relative order from before to after
RosterOrderKept(before, after, statusMap) ==
  \A i \in 1..Len(before) :
    SelectSeq(before, LAMBDA r : r # EmptyRow /\ RosterSortKeys(r, statusMap)
                                                   = RosterSortKeys(before[i], statusMap))
      = SelectSeq(after, LAMBDA r : r # EmptyRow /\ RosterSortKeys(r, statusMap)
                                                      = RosterSortKeys(before[i], statusMap))

StatsOrderKept(before, after) ==
  \A i \in 1..Len(before) :
    SelectSeq(before, LAMBDA r : StatsSortKeys(r) = StatsSortKeys(before[i]))
      = SelectSeq(after, LAMBDA r : StatsSortKeys(r) = StatsSortKeys(before[i]))

\* a step of one of the two sorts is stable, and changes nothing when the
\* step before it was the same sort
SortStepIdempotentStable ==
  /\ lastOp' = "sortSyncedTabsByAttendanceStatus" =>
       /\ lastOp = "sortSyncedTabsByAttendanceStatus" => tabs' = tabs
       /\ stats.exists /\ stats.rows # <<>> =>
            \A name \in TabNames :
              /\ RosterOrderKept(tabs[name].rows, tabs'[name].rows, StatusMap(stats.rows))
              /\ SortRows(tabs'[name].rows, StatusMap(stats.rows)) = tabs'[name].rows
  /\ lastOp' = "performFinalSort" =>
       /\ lastOp = "performFinalSort" => stats' = stats
       /\ StatsOrderKept(stats.rows, stats'.rows)
       /\ FinalSort(stats'.rows) = stats'.rows

\* C16: sorting is idempotent and stable: a sort of rows that the same sort
\* has just sorted moves no row, and rows equal on every sort key keep their
\* relative order
C16_SortIdempotentStable == [][SortStepIdempotentStable]_vars

\* two different rows of the sequence are equal on every sort key
HasStatsTie(rows) ==
  \E i, j \in 1..Len(rows) : rows[i] # rows[j] /\ StatsSortKeys(rows[i]) = StatsSortKeys(rows[j])

C16_Witness ==
  /\ lastOp = "performFinalSort"
  /\ HasStatsTie(stats.rows)
  /\ prev # tabs
  /\ \E i, j \in 1..Len(tabs["Sunday Service"].rows) :
       /\ tabs["Sunday Service"].rows[i] # tabs["Sunday Service"].rows[j]
       /\ RosterSortKeys(tabs["Sunday Service"].rows[i], StatusMap(stats.rows))
            = RosterSortKeys(tabs["Sunday Service"].rows[j], StatusMap(stats.rows))

---------------------------------------------------------------------------
(* Claims on the Loose-key and the union                                   *)

\* a text without its letter case, whitespace and punctuation
Canon(text) == SelectSeq(LowerStr(text), LAMBDA c : c \notin {" ", ",", "."})

\* two spellings differ only in letter case, whitespace or punctuation
SameSpelling(a, b) == Canon(a.ln) = Canon(b.ln) /\ Canon(a.fn) = Canon(b.fn)

\* the names the union is built from, in the order they are observed: the
\* Directory rows, then the rows of the feeder tabs after the Directory pass
ObservedNames(t, dir) ==
  LET afterDirectory == DirectoryPass(t, dir)
      RowsOf(name) == IF afterDirectory[name].exists THEN afterDirectory[name].rows ELSE <<>>
  IN dir \o RowsOf("Event Attendance") \o RowsOf("Sunday Service") \o RowsOf("Pastoral Check-In")

\* the union of the last run
UnionOfRun == buildUnionEntries_(DirectoryPass(prev, directory), DirectoryEntries(directory))

\* C17: spellings of a name that differ only in case, whitespace or
\* punctuation have the same Loose-key, and the union holds one entry for
\* the key, with the spelling observed first
C17_LooseKeyOneEntry ==
  outcome = "done" =>
    LET observed == ObservedNames(prev, directory)
        keys == [i \in 1..Len(observed) |-> buildNameKey_(observed[i].ln, observed[i].fn)]
        union == UnionOfRun
    IN /\ buildNameKey_(<<"A", ".">>, <<"J">>) = <<"a", "|", "j">>
       /\ buildNameKey_(<<" ", "a", " ">>, <<"J", " ">>) = <<"a", "|", "j">>
       /\ \A i, j \in 1..Len(observed) :
            SameSpelling(observed[i], observed[j]) => keys[i] = keys[j]
       /\ \A i \in 1..Len(observed) :
            LET first == CHOOSE j \in 1..Len(observed) :
                           keys[j] = keys[i] /\ \A k \in 1..(j - 1) : keys[k] # keys[i]
            IN keys[i] # Null =>
                 /\ Cardinality({e \in 1..Len(union) : union[e].key = keys[i]}) = 1
                 /\ \A e \in 1..Len(union) :
                      union[e].key = keys[i] =>
                        /\ union[e].lastName = Trim(observed[first].ln)
                        /\ union[e].firstName = Trim(observed[first].fn)
       /\ stats.rows = <<>> =>
            /\ Len(tabs["Appsheet Event"].rows) = Len(union)
            /\ \A e \in 1..Len(union) :
                 /\ tabs["Appsheet Event"].rows[e].ln = union[e].lastName
                 /\ tabs["Appsheet Event"].rows[e].fn = union[e].firstName

C17_Witness ==
  /\ outcome = "done"
  /\ stats.rows = <<>>
  /\ Len(directory) > 0
  /\ \E i \in 1..Len(prev["Event Attendance"].rows), j \in 1..Len(prev["Sunday Service"].rows) :
       /\ SameSpelling(prev["Event Attendance"].rows[i], directory[1])
       /\ SameSpelling(prev["Sunday Service"].rows[j], directory[1])
       /\ prev["Event Attendance"].rows[i].ln # directory[1].ln
       /\ prev["Sunday Service"].rows[j].ln # directory[1].ln
       /\ prev["Event Attendance"].rows[i].ln # prev["Sunday Service"].rows[j].ln
  /\ Len(UnionOfRun) >= 2
  /\ tabs["Appsheet Event"].rows[1].ln = directory[1].ln

---------------------------------------------------------------------------
(* Claims on the append steps                                              *)

\* the number of rows of the sequence that equal row
Copies(rows, row) == Cardinality({i \in 1..Len(rows) : rows[i] = row})

\* C18: every data row that had a last or first name before a pass is in
\* its tab after the pass with the same cells, whatever gap the tab had
C18_AppendKeepsRows ==
  outcome \in {"done", "noAttendanceStats"} =>
    \A name \in TabNames :
      \A i \in 1..Len(prev[name].rows) :
        ~IsBlankName(prev[name].rows[i]) =>
          Copies(tabs[name].rows, prev[name].rows[i]) >= Copies(prev[name].rows, prev[name].rows[i])

\* no pass started while another one was in flight
Serialized == \A p \in Passes : passes[p].alone

\* the IDs written by the passes 1..n, pass after pass
RECURSIVE IdsWritten(_)
IdsWritten(n) == IF n = 0 THEN <<>> ELSE IdsWritten(n - 1) \o passes[n].ids

PairwiseDistinct(seq) == \A i, j \in 1..Len(seq) : i # j => seq[i] # seq[j]

\* C19: when each pass completes before the next one starts, the sequential
\* IDs the passes write into the target are pairwise distinct
C19_SerializedIdsDistinct == Serialized => PairwiseDistinct(IdsWritten(MaxPasses))

\* two passes have read the target before either wrote, both are through, and
\* two rows of the target carry an ID that both of them wrote
C19_Witness ==
  \E p, q \in Passes :
    /\ p # q
    /\ passes[p].pc = "done" /\ passes[q].pc = "done"
    /\ ~passes[q].alone
    /\ \E i, j \in 1..Len(tabs[RaceTarget].rows) :
         /\ i # j
         /\ tabs[RaceTarget].rows[i].id = tabs[RaceTarget].rows[j].id
         /\ \E m \in 1..Len(passes[p].ids), n \in 1..Len(passes[q].ids) :
              /\ passes[p].ids[m] = tabs[RaceTarget].rows[i].id
              /\ passes[q].ids[n] = tabs[RaceTarget].rows[i].id

\* the numeric IDs shown in the ID column of the data rows
IdsShown(rows) == {extractNumericBel(rows[i].id) : i \in 1..Len(rows)} \ {NoBelId}

\* the numeric IDs shown on any row of the Directory, Event Attendance or
\* Sunday Service
DisplayedIds ==
  IdsShown(directory) \cup IdsShown(tabs["Event Attendance"].rows)
    \cup IdsShown(tabs["Sunday Service"].rows)

\* C20: after a run the used-ID set built from the sources holds every ID
\* shown on a row of the Directory, Event Attendance or Sunday Service, rows
\* without a last or first name included, and no generated ID is one of them
C20_DisplayedIdsReserved ==
  lastOp = "matchOrAssignBelCodes" =>
    /\ DisplayedIds \subseteq bel.used0
    /\ \A i \in 1..Len(bel.generated) : bel.generated[i] \notin DisplayedIds

\* the data rows the three populate calls scan, in the order of the calls
SourceRows == directory \o tabs["Event Attendance"].rows \o tabs["Sunday Service"].rows

\* the Strict-key of a row
StrictKeyOf(row) == normalizeName(LastCommaFirst(row.ln, row.fn))

\* the row shows a numeric ID and has both names
BindsExplicit(row) == row.id >= 0 /\ row.ln # <<>> /\ row.fn # <<>>

\* the keys that some source row binds to an explicit ID
ExplicitKeys == {StrictKeyOf(SourceRows[i]) : i \in {j \in 1..Len(SourceRows) : BindsExplicit(SourceRows[j])}}

\* the ID of the first source row that binds the key
FirstExplicitId(key) ==
  LET first == CHOOSE i \in 1..Len(SourceRows) :
                 /\ BindsExplicit(SourceRows[i]) /\ StrictKeyOf(SourceRows[i]) = key
                 /\ \A j \in 1..(i - 1) :
                      ~(BindsExplicit(SourceRows[j]) /\ StrictKeyOf(SourceRows[j]) = key)
  IN SourceRows[first].id

\* C21: after a run every key with an explicit binding carries the ID of the
\* first row that binds it (Directory, Event Attendance, Sunday Service), all
\* its records carry that ID, and IDs are generated for the other keys only
C21_FirstExplicitBindingKept ==
  lastOp = "matchOrAssignBelCodes" =>
    LET explicit == ExplicitKeys
    IN /\ \A key \in explicit :
            /\ key \in DOMAIN bel.belMap
            /\ bel.belMap[key] = FirstExplicitId(key)
       /\ \A i \in 1..Len(bel.rawData) :
            LET key == normalizeName(LastCommaFirst(bel.rawData[i].lastName,
                                                    bel.rawData[i].firstName))
            IN key \in explicit => bel.rawData[i].bel = FirstExplicitId(key)
       /\ Len(bel.generated) = Cardinality((DOMAIN bel.belMap) \ explicit)

\* the rows of the tab that the last run appended: their ID is above the
\* largest ID the tab had when the run started
NewRowsOf(name) ==
  {i \in 1..Len(tabs[name].rows) : tabs[name].rows[i].id > MaxId(prev[name].rows)}

\* the place of the key in the union of the last run
UnionPlace(union, key) == CHOOSE e \in 1..Len(union) : union[e].key = key

Nameless(row) == normalizeName(row.ln) = <<>> /\ normalizeName(row.fn) = <<>>

\* C23: a row whose names both normalize to the empty string gets no key from
\* buildNameKey_ and no entry in the union, and after a run of
\* matchOrAssignBelCodes its key is bound to no ID, explicit or generated
C23_NamelessRowNoIdentity ==
  lastOp = "matchOrAssignBelCodes" =>
    \A i \in 1..Len(SourceRows) :
      Nameless(SourceRows[i]) =>
        /\ buildNameKey_(SourceRows[i].ln, SourceRows[i].fn) = Null
        /\ AddSheetToUnion(<<>>, <<SourceRows[i]>>) = <<>>
        /\ StrictKeyOf(SourceRows[i]) \notin DOMAIN bel.belMap

\* the Strict-keys of the Directory rows that have both names
DirectoryIdentitySet ==
  {StrictKeyOf(directory[i]) :
     i \in {j \in 1..Len(directory) : directory[j].ln # <<>> /\ directory[j].fn # <<>>}}

\* C24: a summary row is flagged "Guest" exactly when the Strict-key of its
\* name is not in the Directory's identity set, and a person that a roster
\* row labels Member has no summary row flagged Guest
C24_GuestFlagByStrictKey ==
  \A s \in 1..Len(summary) :
    /\ summary[s].guest =
         IF normalizeName(LastCommaFirst(summary[s].lastName, summary[s].firstName))
              \in DirectoryIdentitySet
         THEN "" ELSE "Guest"
    /\ \A name \in {"Sunday Service", "Event Attendance"} :
         \A i \in 1..Len(tabs[name].rows) :
           (/\ tabs[name].rows[i].type = "Member"
            /\ tabs[name].rows[i].ln = summary[s].lastName
            /\ tabs[name].rows[i].fn = summary[s].firstName) => summary[s].guest = ""

\* the label names the pastoral check-in, whatever its case and spacing
NamesPastoralCheckIn(label) == label \in {"Pastoral Check-In", "pastoral check-in "}

\* C25: the last event date of a summary row is the latest date of the
\* records of its identity, and the last event name is the label of a record
\* of that date, or "Pastoral Check-In" when that label names the check-in
C25_LastEventOfLatestRecord ==
  lastOp = "calculateAttendanceStats" =>
    \A s \in 1..Len(summary) :
      LET records == GroupOf(bel.rawData, summary[s].bel)
      IN /\ \A i \in 1..Len(records) : records[i].date <= summary[s].lastDate
         /\ \E i \in 1..Len(records) :
              /\ records[i].date = summary[s].lastDate
              /\ summary[s].lastEventName =
                   IF NamesPastoralCheckIn(records[i].eventName)
                   THEN "Pastoral Check-In" ELSE records[i].eventName

\* the records of the last run that come from the Attendance Log: no column
\* of Event Attendance is labelled "Pastoral Check-In" in these stores
LogRecords == SelectSeq(bel.rawData, LAMBDA r : r.eventName = "Pastoral Check-In")

\* C26: every record made from the Attendance Log comes from a log row with
\* the Pastoral Check-In label, and no two of these records have the same
\* identity and calendar day
C26_LogRecordsOncePerDay ==
  lastOp = "matchOrAssignBelCodes" =>
    LET records == LogRecords
    IN /\ \A i \in 1..Len(records) :
            \E l \in 1..Len(attLog) :
              /\ NamesPastoralCheckIn(attLog[l].event)
              /\ attLog[l].ln = records[i].lastName
              /\ attLog[l].fn = records[i].firstName
              /\ attLog[l].date = records[i].date
       /\ \A i, j \in 1..Len(records) :
            (/\ records[i].bel = records[j].bel
             /\ records[i].date \div TicksPerDay = records[j].date \div TicksPerDay) => i = j
       /\ \A i \in 1..Len(bel.rawData) :
            bel.rawData[i].eventName \in {"Bible Study", "Sunday Service", "Pastoral Check-In"}

\* two check-in rows of one person on one day, at different times, and a
\* row of another event: one record from the log
C26_Witness ==
  /\ lastOp = "matchOrAssignBelCodes"
  /\ Len(attLog) = 2
  /\ attLog[1].ln = attLog[2].ln
  /\ attLog[1].date # attLog[2].date
  /\ NamesPastoralCheckIn(attLog[1].event) /\ NamesPastoralCheckIn(attLog[2].event)
  /\ Len(LogRecords) = 1

\* the number of raw records of the key dated on or after today minus 90
\* days, repeated records of one event-day counted one by one
RawCount90(key) ==
  LET records == RecordsOfKey(key)
  IN Cardinality({i \in 1..Len(records) : records[i].date >= Cutoff90(today)})

\* C27: the level that updateActivityLevels writes for an identity with a
\* record in the last 12 months is the one of its raw record count of the
\* last 90 days: Core from 12, Active from 3, Inactive below
C27_Count90RawRecords ==
  lastOp = "updateActivityLevels" =>
    \A i \in 1..Len(stats.rows) :
      LET key == StatsKey(stats.rows[i])
          count90 == RawCount90(key)
      IN count90 > 0 =>
           stats.rows[i].status =
             IF count90 >= 12 THEN "Core" ELSE IF count90 >= 3 THEN "Active" ELSE "Inactive"

\* the tier label of the identity of a roster row in Attendance Stats, "" when
\* it has no row there
RosterTier(row) ==
  IF RowKey(row) # Null /\ \E i \in 1..Len(stats.rows) : RowKey(stats.rows[i]) = RowKey(row)
  THEN stats.rows[CHOOSE i \in 1..Len(stats.rows) :
                    /\ RowKey(stats.rows[i]) = RowKey(row)
                    /\ \A j \in (i + 1)..Len(stats.rows) : RowKey(stats.rows[j]) # RowKey(row)].status
  ELSE ""

\* C28: the label Archive has rank 3, and after the sort of a run every roster
\* row of an Archive identity stands before every row of an identity that has
\* no row in Attendance Stats
C28_ArchiveBeforeUnknown ==
  (outcome = "done" /\ stats.rows # <<>>) =>
    /\ getStatusRank_("Archive") = 3
    /\ \A name \in TabNames :
         \A i, j \in 1..Len(tabs[name].rows) :
           (/\ RosterTier(tabs[name].rows[i]) = "Archive"
            /\ RowKey(tabs[name].rows[j]) # Null
            /\ RowKey(tabs[name].rows[j]) \notin StatusMapKeys(stats.rows)) => i < j

---------------------------------------------------------------------------
(* Claims on the Attendance Log                                            *)

\* the row was recorded on a destination tab in the step
AppliedInStep(i) == applied'[i] > applied[i]

\* (name, event, date) of a log row, as processedLogs holds it
NameEventDate(row) ==
  <<standardizeNameHelper(LastCommaFirst(row.ln, row.fn)), TrimLabel(row.event),
    row.date \div TicksPerDay>>

\* a run of processAttendanceLogV2 records only rows whose Status was blank,
\* leaves every row it recorded marked "Logged", marks a row that repeats a
\* row recorded earlier in the run without recording it, and no row is
\* recorded more than once over the runs
AppliedOnceStep ==
  lastOp' = "processAttendanceLogV2" =>
    \A i \in 1..Len(attLog) :
      /\ AppliedInStep(i) => attLog[i].status = "" /\ attLog'[i].status = "Logged"
      /\ (/\ attLog[i].status = ""
          /\ attLog[i].ln # <<>> /\ attLog[i].fn # <<>> /\ attLog[i].date >= 0
          /\ \E j \in 1..(i - 1) :
               AppliedInStep(j) /\ NameEventDate(attLog[j]) = NameEventDate(attLog[i]))
         => attLog'[i].status = "Logged" /\ ~AppliedInStep(i)
      /\ applied'[i] <= 1

\* C29: processAttendanceLogV2 applies a log row only if its Status cell is
\* blank, marks every row it applied as "Logged", marks a row repeating the
\* (name, event, date) of a row applied earlier in the run as "Logged"
\* without applying it, and over any number of runs applies no row twice
C29_BlankRowsAppliedOnce == [][AppliedOnceStep]_vars

\* (last name, first name, event name, calendar date) of a log row, case and
\* outer blanks set aside
CalendarKey(row) ==
  <<LowerStr(Trim(row.ln)), LowerStr(Trim(row.fn)), LowerLabel(row.event),
    row.date \div TicksPerDay>>

\* a run of exportSheetsAttendanceToLogV2 adds no row whose key an earlier
\* row of the log has, and a run that follows another run adds nothing
NoRepeatedRowStep ==
  lastOp' = "exportSheetsAttendanceToLogV2" =>
    /\ Len(attLog') >= Len(attLog)
    /\ SubSeq(attLog', 1, Len(attLog)) = attLog
    /\ \A i \in (Len(attLog) + 1)..Len(attLog') :
         \A j \in 1..(i - 1) : CalendarKey(attLog'[i]) # CalendarKey(attLog'[j])
    /\ lastOp = "exportSheetsAttendanceToLogV2" => attLog' = attLog

====
